---- MODULE Spec2Model ----
(***************************************************************************)
(* Simulation core of the Wedding-Run endless runner.                      *)
(*                                                                         *)
(* Four variants of the GameScreen component are modelled:                 *)
(*   "sprite" : src/components/GameScreen.tsx, lines 1-580                 *)
(*   "p000"   : src/unnamed/part_000                                       *)
(*   "v3"     : src/components/GameScreen.tsx, lines 890-1152              *)
(*   "p001"   : src/unnamed/part_001                                       *)
(*                                                                         *)
(* Numbers.  The code computes with IEEE doubles; the model uses exact     *)
(* fixed point.  Lengths and velocities are integers counting 1/Unit of a  *)
(* pixel.  Every length the code can produce is a multiple of 1/Unit px:   *)
(* dy starts as a multiple of 0.2 px and endJump can damp it by 9/20 at    *)
(* most three times during one jump (-15 -> -6.75 -> -3.0375 -> -1.366875  *)
(* which is no longer below -2), giving 1/(5*20^3) px; all sprite sizes    *)
(* and hitbox insets have at most four decimals.  The score accumulator    *)
(* counts 1/ScoreDen of a point.  Times are integer milliseconds.          *)
(***************************************************************************)
EXTENDS Integers, Sequences, FiniteSets, TLC

Unit == 5 * 20 * 20 * 20
Px(n) == n * Unit
\* n * (num/den) for a decimal factor num/den
Mul(n, num, den) == (n * num) \div den

(***************************************************************************)
(* Constants of src/components/GameScreen.tsx                              *)
(***************************************************************************)
CANVAS_W == Px(800)
CANVAS_H == Px(450)
GROUND_HEIGHT == Px(80)
GROUND_Y == CANVAS_H - GROUND_HEIGHT
PLAYER_BASE_Y == GROUND_Y + Px(18)
PLAYER_BASE_WIDTH == Px(70)
PLAYER_BASE_HEIGHT == Px(110)
GRAVITY == Mul(Unit, 8, 10)
JUMP_STRENGTH == - Px(15)
INITIAL_SPEED == Px(5)
MAX_SPEED == Px(22)
ACCELERATION == Mul(Unit, 3, 100)
SPAWN_BASE_MIN == 70
SPAWN_BASE_VAR == 80
GAME_OVER_DELAY == 1000

(***************************************************************************)
(* Constants of src/unnamed/part_000 that differ                           *)
(***************************************************************************)
FLOOR_Y == CANVAS_H - Px(38)
ACCELERATION_p0 == Mul(Unit, 25, 1000)
SPAWN_BASE_MIN_p0 == 60
GAME_OVER_WAIT_p0 == 1000

\* config/assets.ts, OBSTACLES: natural sizes of the obstacle images (px)
AssetSize(type) ==
  CASE type = "GROUND_SMALL" -> [width |-> 113, height |-> 144]
    [] type = "GROUND_LARGE" -> [width |-> 118, height |-> 279]
    [] type = "FLYING_SMALL" -> [width |-> 343, height |-> 203]
    [] type = "FLYING_LARGE" -> [width |-> 343, height |-> 203]

ObstacleTypes == {"GROUND_SMALL", "GROUND_LARGE", "FLYING_SMALL", "FLYING_LARGE"}

(***************************************************************************)
(* Score units.  sprite: 0.08 * (speed/5) * (dt/16.67); part_000: 0.1 *    *)
(* (speed/5) * (dt/16.67).  With speed a multiple of Unit/200 px both are  *)
(* integer multiples of 1/ScoreDen:                                        *)
(*   0.08 * speed/5 * dt/16.67 = 4 * (speed*200/Unit) * dt / 833500        *)
(*   0.10 * speed/5 * dt/16.67 = 5 * (speed*200/Unit) * dt / 833500        *)
(***************************************************************************)
ScoreDen == 1667 * 500
SpeedStep == Unit \div 200
Floor(s) == s \div ScoreDen

(***************************************************************************)
(* Bounds of the exploration                                               *)
(***************************************************************************)
\* ticks of the playing branch that are explored
MaxTicks == 170
\* ticks explored after onGameOver has been reported
MaxReportedTicks == 1
\* Spec: the button is not touched during the first QuietTicks ticks
QuietTicks == 130
\* SpecJump: ticks explored with the button pressed and released freely
JumpTicks == 40
\* SpecArc: ticks explored with presses and no release
ArcHorizon == 60
\* SpecSpawn: ticks explored with every threshold draw and no press
SpawnHorizon == 320
\* SpecClear: ticks explored with the button pressed on cue
ClearHorizon == 650
\* SpecStand: ticks explored with the button pressed on cue or not at all
StandHorizon == 620
\* SpecStall: ticks explored with one long gap between two frames
StallHorizon == 180
\* SpecRamp: ticks explored without any press
RampTicks == 575
\* part_000: the image load settles within the first LoadBy ticks
LoadBy == 3

\* performance.now() at mount (any positive time)
MountTimes == {5000}
\* The frame clocks explored.  first: the timestamp of the first frame minus
\* the performance.now() the setup effect stored (a frame's timestamp is the
\* time the frame began, so it can lie before a performance.now() that was
\* read while that frame was already under way); frame: the gap between
\* the timestamps of consecutive frames while the match is live (ms).
Steady == [first |-> 16, frame |-> 16]
Clocks == {Steady, [first |-> -8, frame |-> 16],
           [first |-> 1000, frame |-> 1000]}
\* timestamp gaps of the frames that arrive during the game-over delay (ms)
DtSet == {0, 500, 1000}
\* timestamp gaps after the tab has been in the background (ms)
StallGaps == {10000}
\* SpecStall: the long gap comes at tick StallFrom or later, when the first
\* obstacle is about to reach the player
StallFrom == 130
\* SpecEffect: ticks explored with effect re-runs and a teardown
EffectHorizon == 170
\* SpecV3: ticks explored; spawn draws succeed during the first SpawnWindow
\* ticks only and the button is pressed once, not before tick JumpFrom
V3Horizon == 150
SpawnWindow == 4
JumpFrom == 60
\* SpecP1: ticks explored; the button is pressed during the first TapTicks
\* ticks only
P1Horizon == 165
TapTicks == 30
\* Math.random() draws, in hundredths: one value in each type band
TypeDraws == {0, 40, 70, 90}
\* Math.random() draws for the next spawn threshold, in hundredths
ThresholdDraws == {0}
\* the same draws where the spawn rhythm itself is explored
SpawnDraws == {0, 50, 99}

VARIABLES
  variant,            \* which GameScreen source is running
  clock,              \* environment: the frame clock, one of Clocks
  rafPending,         \* a requestAnimationFrame callback is scheduled
  lastTime,           \* lastTimeRef.current
  score,              \* scoreRef.current, in 1/ScoreDen
  isPlaying, hasGameOverSent, gameOverTimerMs,
  isGameOver, gameOverWaitMs,   \* part_000 only
  speed, frameCount, nextSpawnThreshold,
  bgFarOffset, bgMidOffset, groundOffset,
  player, obstacles,
  chara1Loaded,       \* part_000: loadAll has stored the player image size
  app,                \* the App that hosts GameScreen, with its other
                      \* screens, timers and requests
  react,              \* React's side of the component: mounted, the
                      \* currentScore state, an effect re-run that is due,
                      \* the currentScore captured by the callback of the
                      \* frame in requestRef, and those of the pending
                      \* frames requestRef no longer names
  \* observation of the run (not program state)
  op,                 \* the operation that ran last
  tickNo,             \* number of playing-branch ticks so far
  reportedTicks,      \* ticks that ran after the report
  gameOverCalls,      \* how often onGameOver has been invoked
  gameOverArg,        \* the argument of the last onGameOver call
  scoreAtHit,         \* score at the end of the collision tick
  hasJumped,          \* a startJump has taken effect
  msAfterHit,         \* dt summed over the ticks after the collision tick
  lastDt,             \* dtMs of the last tick
  jumpAge             \* playing ticks since the take-off of the jump in
                      \* progress (0 on the ground)

simVars == <<score, isPlaying, hasGameOverSent, gameOverTimerMs, isGameOver,
             gameOverWaitMs, speed, frameCount, nextSpawnThreshold,
             bgFarOffset, bgMidOffset, groundOffset, player, obstacles>>
obsVars == <<op, tickNo, reportedTicks, gameOverCalls, gameOverArg,
             scoreAtHit, hasJumped, msAfterHit, lastDt, jumpAge>>
vars == <<variant, clock, rafPending, lastTime, chara1Loaded, react, app,
          simVars, obsVars>>

(***************************************************************************)
(* Initial state: the refs of a freshly mounted GameScreen, after the      *)
(* setup effect has stored performance.now() and requested the first frame *)
(***************************************************************************)
InitPlayer ==
  [x |-> Px(130), y |-> PLAYER_BASE_Y, dy |-> 0, isJumping |-> FALSE,
   width |-> PLAYER_BASE_WIDTH, height |-> PLAYER_BASE_HEIGHT,
   animState |-> "run", runFrame |-> 0, runAnimTimer |-> 0]

InitPlayer_p0 ==
  [x |-> Px(140), y |-> FLOOR_Y, dy |-> 0, isJumping |-> FALSE,
   hitWidth |-> Px(60), hitHeight |-> Px(110),
   animState |-> "run", runFrame |-> 0, runAnimTimer |-> 0]

InitObs ==
  /\ op = "mount"
  /\ tickNo = 0
  /\ reportedTicks = 0
  /\ gameOverCalls = 0
  /\ gameOverArg = -1
  /\ scoreAtHit = -1
  /\ hasJumped = FALSE
  /\ msAfterHit = 0
  /\ lastDt = 0
  /\ jumpAge = 0

InitSprite ==
  /\ variant = "sprite"
  /\ score = 0
  /\ isPlaying = TRUE
  /\ hasGameOverSent = FALSE
  /\ gameOverTimerMs = 0
  /\ isGameOver = FALSE
  /\ gameOverWaitMs = 0
  /\ speed = INITIAL_SPEED
  /\ frameCount = 0
  /\ nextSpawnThreshold = SPAWN_BASE_MIN * 100
  /\ bgFarOffset = 0
  /\ bgMidOffset = 0
  /\ groundOffset = 0
  /\ player = InitPlayer
  /\ obstacles = <<>>
  /\ chara1Loaded = FALSE

Init_p0 ==
  /\ variant = "p000"
  /\ score = 0
  /\ isPlaying = TRUE
  /\ hasGameOverSent = FALSE
  /\ gameOverTimerMs = 0
  /\ isGameOver = FALSE
  /\ gameOverWaitMs = 0
  /\ speed = INITIAL_SPEED
  /\ frameCount = 0
  /\ nextSpawnThreshold = SPAWN_BASE_MIN_p0 * 100
  /\ bgFarOffset = 0
  /\ bgMidOffset = 0
  /\ groundOffset = 0
  /\ player = InitPlayer_p0
  /\ obstacles = <<>>
  /\ chara1Loaded = FALSE

(***************************************************************************)
(* The App (src/types.ts, lines 121-275) that hosts the screens.  app is   *)
(* a record:                                                               *)
(*   appState, lastScore, isPortrait : the App's React state               *)
(*   shown      : the screen React has committed ("WARN" is the portrait   *)
(*                warning)                                                 *)
(*   loadTimer  : the 500 ms timer of the initial PIN check, with the      *)
(*                result of the comparison it will make                    *)
(*   storage    : localStorage's pin entry (<<>> when absent)              *)
(*   input, error : PinScreen's state                                      *)
(*   selectedName, isSubmitting, hasSubmitted : ResultScreen's state       *)
(*   inFlight   : the saveScore requests awaiting the backend, each with   *)
(*                its score and whether the screen that sent it is still   *)
(*                mounted                                                  *)
(*   rankTimers : pending setTimeout(onShowRanking) timers                 *)
(*   fetching   : the mounted RankingScreen awaits getRanking              *)
(*   scores, loading : RankingScreen's state (scores as "none", "empty" or *)
(*                "list")                                                  *)
(*   matches, flips, pinFound, savedHere : observation of the run:         *)
(*                GameScreen mounts, orientation changes, a matching PIN   *)
(*                was found, scores written since RESULT was entered       *)
(***************************************************************************)
\* config/event: the configured PIN
eventConfig == [pin |-> <<1, 2, 1, 2>>]

\* the App right after its mount, with localStorage's entry
AppMounted(stored, portrait) ==
  [appState |-> "LOADING", lastScore |-> 0, isPortrait |-> portrait,
   shown |-> IF portrait THEN "WARN" ELSE "LOADING",
   loadTimer |-> IF stored = eventConfig.pin THEN "TITLE" ELSE "PIN",
   storage |-> stored, input |-> <<>>, error |-> FALSE,
   selectedName |-> FALSE, isSubmitting |-> FALSE, hasSubmitted |-> FALSE,
   inFlight |-> <<>>, rankTimers |-> 0, fetching |-> FALSE,
   scores |-> "none", loading |-> FALSE,
   matches |-> 0, flips |-> 0, pinFound |-> FALSE, savedHere |-> 0]

\* the App showing GameScreen after START
AppInGame ==
  [AppMounted(eventConfig.pin, FALSE) EXCEPT
                                      !.appState = "GAME", !.shown = "GAME",
                                      !.loadTimer = "done", !.matches = 1,
                                      !.pinFound = TRUE]

\* variant of handleGameOver that keeps the score of an earlier match
handleGameOver_first(a, sc) ==
  [a EXCEPT !.lastScore = IF @ = 0 THEN sc ELSE @, !.appState = "RESULT",
            !.savedHere = 0]

handleGameOver(a, sc) ==
  [a EXCEPT !.lastScore = sc, !.appState = "RESULT", !.savedHere = 0]

SetupEffect ==
  /\ app = AppInGame
  /\ lastTime \in MountTimes
  /\ rafPending = TRUE
  /\ react = [mounted |-> TRUE, effectDue |-> FALSE, currentScore |-> 0,
              refClosure |-> 0, orphans |-> <<>>]

Init ==
  /\ clock \in Clocks
  /\ SetupEffect
  /\ (InitSprite \/ Init_p0)
  /\ InitObs

(***************************************************************************)
(* startJump / endJump (the same code in both variants)                    *)
(***************************************************************************)
\* variant of StartJumpPlayer without the grounded test (a double jump)
StartJumpPlayer_midair(playing, p) ==
  IF ~playing THEN p
  ELSE [p EXCEPT !.dy = JUMP_STRENGTH, !.isJumping = TRUE,
                 !.animState = "jump"]

\* variant of StartJumpPlayer without the isPlaying test
StartJumpPlayer_dead(playing, p) ==
  IF ~p.isJumping
  THEN [p EXCEPT !.dy = JUMP_STRENGTH, !.isJumping = TRUE,
                 !.animState = "jump"]
  ELSE p

StartJumpPlayer(playing, p) ==
  IF ~playing THEN p
  ELSE IF ~p.isJumping
       THEN [p EXCEPT !.dy = JUMP_STRENGTH, !.isJumping = TRUE,
                      !.animState = "jump"]
       ELSE p

\* variant of EndJumpPlayer whose factor is above 1
EndJumpPlayer_boost(p) ==
  IF p.isJumping /\ p.dy < - Px(2)
  THEN [p EXCEPT !.dy = Mul(p.dy, 145, 100)]
  ELSE p

EndJumpPlayer(p) ==
  IF p.isJumping /\ p.dy < - Px(2)
  THEN [p EXCEPT !.dy = Mul(p.dy, 45, 100)]
  ELSE p

startJump ==
  /\ player' = StartJumpPlayer(isPlaying, player)
  /\ hasJumped' = (hasJumped \/ player' # player)
  /\ jumpAge' = IF player' # player THEN 0 ELSE jumpAge
  /\ op' = "startJump"
  /\ UNCHANGED <<variant, clock, app, rafPending, lastTime, chara1Loaded, react,
                 score,
                 isPlaying, hasGameOverSent, gameOverTimerMs, isGameOver,
                 gameOverWaitMs, speed, frameCount, nextSpawnThreshold,
                 bgFarOffset, bgMidOffset, groundOffset, obstacles, tickNo,
                 reportedTicks, gameOverCalls, gameOverArg, scoreAtHit,
                 msAfterHit, lastDt>>

endJump ==
  /\ player' = EndJumpPlayer(player)
  /\ op' = "endJump"
  /\ UNCHANGED <<variant, clock, app, rafPending, lastTime, chara1Loaded, react,
                 score,
                 isPlaying, hasGameOverSent, gameOverTimerMs, isGameOver,
                 gameOverWaitMs, speed, frameCount, nextSpawnThreshold,
                 bgFarOffset, bgMidOffset, groundOffset, obstacles, tickNo,
                 reportedTicks, gameOverCalls, gameOverArg, scoreAtHit,
                 hasJumped, msAfterHit, lastDt, jumpAge>>

(***************************************************************************)
(* part_000: loadAll resolves and resizes the player's collision box from  *)
(* the natural size of chara_1.png (config/assets.ts: 647 x 453).  A       *)
(* failed load (chara1 null) leaves the box alone and is the run in which  *)
(* this action never happens.                                              *)
(***************************************************************************)
loadAll ==
  /\ variant = "p000"
  /\ ~chara1Loaded
  /\ tickNo <= LoadBy
  /\ LET h == Mul(Px(453), 42, 100)
         w == Mul(Px(647), 42, 100)
     IN player' = [player EXCEPT !.hitHeight = Mul(h, 9, 10),
                                 !.hitWidth = Mul(w, 6, 10)]
  /\ chara1Loaded' = TRUE
  /\ op' = "loadAll"
  /\ UNCHANGED <<variant, clock, app, rafPending, lastTime, react, score,
                 isPlaying, hasGameOverSent, gameOverTimerMs, isGameOver,
                 gameOverWaitMs, speed, frameCount, nextSpawnThreshold,
                 bgFarOffset, bgMidOffset, groundOffset, obstacles, tickNo,
                 reportedTicks, gameOverCalls, gameOverArg, scoreAtHit,
                 hasJumped, msAfterHit, lastDt, jumpAge>>

(***************************************************************************)
(* update: the pieces of one tick                                          *)
(***************************************************************************)
\* variant of DtMs that reads lastTimeRef after it has been overwritten
DtMs_stale(time) == time - time

\* const dtMs = time - (lastTimeRef.current || time)
DtMs(time) == time - (IF lastTime = 0 THEN time ELSE lastTime)

\* rate * (speed / INITIAL_SPEED) * (dtMs / 16.67), rate = 0.08 or 0.1,
\* in 1/ScoreDen: rate4 is 4 for 0.08 and 5 for 0.1
ScoreInc(rate4, spd, dtMs) == rate4 * (spd \div SpeedStep) * dtMs

Min(a, b) == IF a < b THEN a ELSE b

\* variant of SpeedUp without the cap
SpeedUp_uncapped(spd, acc) == spd + acc

SpeedUp(spd, acc) == Min(MAX_SPEED, spd + acc)

\* variant of PlayerPhysics whose landing zeroes dy but leaves y alone
PlayerPhysics_sink(p, floorY) ==
  LET dy1 == p.dy + GRAVITY
      y1 == p.y + dy1
  IN IF y1 > floorY
     THEN [p EXCEPT !.y = y1, !.dy = 0,
                    !.isJumping = FALSE,
                    !.animState = IF p.isJumping THEN "run" ELSE p.animState]
     ELSE [p EXCEPT !.y = y1, !.dy = dy1]

\* variant of PlayerPhysics that scales the step by the frame gap
PlayerPhysics_dt(p, floorY) ==
  LET dy1 == p.dy + GRAVITY
      y1 == p.y + dy1 * ((lastTime' - lastTime) \div 16)
  IN IF y1 > floorY
     THEN [p EXCEPT !.y = floorY, !.dy = 0,
                    !.isJumping = FALSE,
                    !.animState = IF p.isJumping THEN "run" ELSE p.animState]
     ELSE [p EXCEPT !.y = y1, !.dy = dy1]

\* variant of PlayerPhysics that moves the player by the velocity of the
\* previous tick
PlayerPhysics_late(p, floorY) ==
  LET dy1 == p.dy + GRAVITY
      y1 == p.y + p.dy
  IN IF y1 > floorY
     THEN [p EXCEPT !.y = floorY, !.dy = 0,
                    !.isJumping = FALSE,
                    !.animState = IF p.isJumping THEN "run" ELSE p.animState]
     ELSE [p EXCEPT !.y = y1, !.dy = dy1]

\* gravity, integration and the ground clamp
PlayerPhysics(p, floorY) ==
  LET dy1 == p.dy + GRAVITY
      y1 == p.y + dy1
  IN IF y1 > floorY
     THEN [p EXCEPT !.y = floorY, !.dy = 0,
                    !.isJumping = FALSE,
                    !.animState = IF p.isJumping THEN "run" ELSE p.animState]
     ELSE [p EXCEPT !.y = y1, !.dy = dy1]

\* the highest point (smallest y) the player reaches when only ticks follow:
\* the physics step is applied for as long as it takes the player higher
RECURSIVE PeakOf(_)
PeakOf(p) ==
  LET q == PlayerPhysics(p, PLAYER_BASE_Y)
  IN IF p.isJumping /\ q.isJumping /\ q.y < p.y THEN PeakOf(q) ELSE p.y

\* the number of ticks after which a jumping player has landed when only
\* ticks follow
RECURSIVE TicksToLand(_, _)
TicksToLand(p, n) ==
  IF ~p.isJumping THEN n
  ELSE TicksToLand(PlayerPhysics(p, PLAYER_BASE_Y), n + 1)

\* ticks from take-off to landing of a jump that is never released
ArcTicks == TicksToLand(StartJumpPlayer(TRUE, InitPlayer), 0)

\* variant of RunAnim that leaves the run frame alone outside "run"
RunAnim_keep(p, dtMs) ==
  IF p.animState = "run"
  THEN LET t == p.runAnimTimer + dtMs
       IN IF t > 120
          THEN [p EXCEPT !.runAnimTimer = 0,
                         !.runFrame = IF p.runFrame = 0 THEN 1 ELSE 0]
          ELSE [p EXCEPT !.runAnimTimer = t]
  ELSE p

RunAnim(p, dtMs) ==
  IF p.animState = "run"
  THEN LET t == p.runAnimTimer + dtMs
       IN IF t > 120
          THEN [p EXCEPT !.runAnimTimer = 0,
                         !.runFrame = IF p.runFrame = 0 THEN 1 ELSE 0]
          ELSE [p EXCEPT !.runAnimTimer = t]
  ELSE [p EXCEPT !.runAnimTimer = 0, !.runFrame = 0]

\* r is Math.random() in hundredths
TypeOf(r) ==
  IF r < 40 THEN "GROUND_SMALL"
  ELSE IF r < 70 THEN "GROUND_LARGE"
  ELSE IF r < 90 THEN "FLYING_SMALL"
  ELSE "FLYING_LARGE"

ScaleOf(type) ==
  CASE type = "GROUND_SMALL" -> 45
    [] type = "GROUND_LARGE" -> 40
    [] type = "FLYING_SMALL" -> 50
    [] type = "FLYING_LARGE" -> 45

\* variant of NewObstacle whose obstacles are scaled by 0.8
NewObstacle_tall(r) ==
  LET type == TypeOf(r)
      w == Mul(Px(AssetSize(type).width), 80, 100)
      h == Mul(Px(AssetSize(type).height), 80, 100)
      yPos == CASE type = "GROUND_SMALL" -> PLAYER_BASE_Y
                [] type = "GROUND_LARGE" -> PLAYER_BASE_Y
                [] type = "FLYING_SMALL" -> PLAYER_BASE_Y - h - Px(30)
                [] type = "FLYING_LARGE" -> PLAYER_BASE_Y - h - Px(40)
  IN [type |-> type, x |-> CANVAS_W + Px(50), y |-> yPos,
      width |-> w, height |-> h]

\* sprite: y is the bottom edge used by the collision test
NewObstacle(r) ==
  LET type == TypeOf(r)
      w == Mul(Px(AssetSize(type).width), ScaleOf(type), 100)
      h == Mul(Px(AssetSize(type).height), ScaleOf(type), 100)
      yPos == CASE type = "GROUND_SMALL" -> PLAYER_BASE_Y
                [] type = "GROUND_LARGE" -> PLAYER_BASE_Y
                [] type = "FLYING_SMALL" -> PLAYER_BASE_Y - h - Px(30)
                [] type = "FLYING_LARGE" -> PLAYER_BASE_Y - h - Px(40)
  IN [type |-> type, x |-> CANVAS_W + Px(50), y |-> yPos,
      width |-> w, height |-> h]

\* part_000: y is the top edge
NewObstacle_p0(r) ==
  LET type == TypeOf(r)
      w == Mul(Px(AssetSize(type).width), 6, 10)
      h == Mul(Px(AssetSize(type).height), 6, 10)
      baseY == CASE type = "GROUND_SMALL" -> FLOOR_Y
                 [] type = "GROUND_LARGE" -> FLOOR_Y
                 [] type = "FLYING_SMALL" -> FLOOR_Y - Px(90)
                 [] type = "FLYING_LARGE" -> FLOOR_Y - Px(70)
  IN [type |-> type, x |-> CANVAS_W + Px(60), y |-> baseY - h,
      width |-> w, height |-> h]

\* variant of NextThreshold without the base
NextThreshold_nobase(base, rnd) == rnd * SPAWN_BASE_VAR

\* base + Math.random() * SPAWN_BASE_VAR, in hundredths of a frame
NextThreshold(base, rnd) == base * 100 + rnd * SPAWN_BASE_VAR

\* variant of SpawnDue that spawns on every tick
SpawnDue_always(fc, thr) == TRUE

SpawnDue(fc, thr) == fc * 100 > thr

\* variant of MoveObstacles that never drops an obstacle
MoveObstacles_keep(obs, spd, limit) ==
  [i \in 1..Len(obs) |-> [obs[i] EXCEPT !.x = obs[i].x - spd]]

\* variant of MoveObstacles that moves five times as far
MoveObstacles_fast(obs, spd, limit) ==
  LET moved == [i \in 1..Len(obs) |-> [obs[i] EXCEPT !.x = obs[i].x - 5 * spd]]
  IN SelectSeq(moved, LAMBDA o : ~(o.x + o.width < limit))

\* obs.x -= speed; drop the ones marked for deletion (limit: -100 / -120 px)
MoveObstacles(obs, spd, limit) ==
  LET moved == [i \in 1..Len(obs) |-> [obs[i] EXCEPT !.x = obs[i].x - spd]]
  IN SelectSeq(moved, LAMBDA o : ~(o.x + o.width < limit))

Hit(p, obs) ==
  LET pHitLeft == p.x + Mul(p.width, 2, 10)
      pHitRight == p.x + Mul(p.width, 8, 10)
      pHitBottom == p.y
      pHitTop == p.y - Mul(p.height, 85, 100)
      oHitLeft == obs.x + Mul(obs.width, 15, 100)
      oHitRight == obs.x + Mul(obs.width, 85, 100)
      oHitBottom == obs.y
      oHitTop == obs.y - Mul(obs.height, 9, 10)
  IN /\ pHitLeft < oHitRight
     /\ pHitRight > oHitLeft
     /\ pHitTop < oHitBottom
     /\ pHitBottom > oHitTop

Hit_p0(p, obs) ==
  LET pLeft == p.x
      pRight == p.x + p.hitWidth
      pBottom == p.y
      pTop == p.y - p.hitHeight
      oLeft == obs.x + Px(10)
      oRight == obs.x + obs.width - Px(10)
      oTop == obs.y
      oBottom == obs.y + obs.height
  IN /\ pLeft < oRight
     /\ pRight > oLeft
     /\ pTop < oBottom
     /\ pBottom > oTop

AnyHit(p, obs) == \E i \in 1..Len(obs) : Hit(p, obs[i])
AnyHit_p0(p, obs) == \E i \in 1..Len(obs) : Hit_p0(p, obs[i])

(***************************************************************************)
(* update(time), src/components/GameScreen.tsx                             *)
(***************************************************************************)
\* variant of GameOverTimer without the hasGameOverSent test
GameOverTimer_resend(dtMs) ==
  LET t == gameOverTimerMs - dtMs
  IN /\ gameOverTimerMs' = t
     /\ msAfterHit' = msAfterHit + dtMs
     /\ IF t <= 0
        THEN /\ hasGameOverSent' = TRUE
             /\ gameOverCalls' = gameOverCalls + 1
             /\ gameOverArg' = Floor(score)
        ELSE UNCHANGED <<hasGameOverSent, gameOverCalls, gameOverArg>>
     /\ reportedTicks' = IF hasGameOverSent THEN reportedTicks + 1
                         ELSE reportedTicks

\* variant of GameOverTimer that counts every frame twice
GameOverTimer_double(dtMs) ==
  IF ~hasGameOverSent
  THEN LET t == gameOverTimerMs - 2 * dtMs
       IN /\ gameOverTimerMs' = t
          /\ msAfterHit' = msAfterHit + dtMs
          /\ IF t <= 0
             THEN /\ hasGameOverSent' = TRUE
                  /\ gameOverCalls' = gameOverCalls + 1
                  /\ gameOverArg' = Floor(score)
             ELSE UNCHANGED <<hasGameOverSent, gameOverCalls, gameOverArg>>
          /\ UNCHANGED reportedTicks
  ELSE /\ reportedTicks' = reportedTicks + 1
       /\ UNCHANGED <<gameOverTimerMs, msAfterHit, hasGameOverSent,
                      gameOverCalls, gameOverArg>>

\* variant of GameOverTimer that rounds the reported score up
GameOverTimer_ceil(dtMs) ==
  IF ~hasGameOverSent
  THEN LET t == gameOverTimerMs - dtMs
       IN /\ gameOverTimerMs' = t
          /\ msAfterHit' = msAfterHit + dtMs
          /\ IF t <= 0
             THEN /\ hasGameOverSent' = TRUE
                  /\ gameOverCalls' = gameOverCalls + 1
                  /\ gameOverArg' = Floor(score) + 1
             ELSE UNCHANGED <<hasGameOverSent, gameOverCalls, gameOverArg>>
          /\ UNCHANGED reportedTicks
  ELSE /\ reportedTicks' = reportedTicks + 1
       /\ UNCHANGED <<gameOverTimerMs, msAfterHit, hasGameOverSent,
                      gameOverCalls, gameOverArg>>

\* variant of GameOverTimer that keeps the timer running after the report
GameOverTimer_run(dtMs) ==
  IF ~hasGameOverSent
  THEN LET t == gameOverTimerMs - dtMs
       IN /\ gameOverTimerMs' = t
          /\ msAfterHit' = msAfterHit + dtMs
          /\ IF t <= 0
             THEN /\ hasGameOverSent' = TRUE
                  /\ gameOverCalls' = gameOverCalls + 1
                  /\ gameOverArg' = Floor(score)
             ELSE UNCHANGED <<hasGameOverSent, gameOverCalls, gameOverArg>>
          /\ UNCHANGED reportedTicks
  ELSE /\ reportedTicks' = reportedTicks + 1
       /\ gameOverTimerMs' = gameOverTimerMs - dtMs
       /\ UNCHANGED <<msAfterHit, hasGameOverSent, gameOverCalls, gameOverArg>>

\* variant of GameOverTimer that clears the sent flag on the tick after the
\* report
GameOverTimer_rearm(dtMs) ==
  IF ~hasGameOverSent
  THEN LET t == gameOverTimerMs - dtMs
       IN /\ gameOverTimerMs' = t
          /\ msAfterHit' = msAfterHit + dtMs
          /\ IF t <= 0
             THEN /\ hasGameOverSent' = TRUE
                  /\ gameOverCalls' = gameOverCalls + 1
                  /\ gameOverArg' = Floor(score)
             ELSE UNCHANGED <<hasGameOverSent, gameOverCalls, gameOverArg>>
          /\ UNCHANGED reportedTicks
  ELSE /\ reportedTicks' = reportedTicks + 1
       /\ hasGameOverSent' = FALSE
       /\ UNCHANGED <<gameOverTimerMs, msAfterHit, gameOverCalls, gameOverArg>>

\* the game-over timer, run when the tick starts with isPlaying false
GameOverTimer(dtMs) ==
  IF ~hasGameOverSent
  THEN LET t == gameOverTimerMs - dtMs
       IN /\ gameOverTimerMs' = t
          /\ msAfterHit' = msAfterHit + dtMs
          /\ IF t <= 0
             THEN /\ hasGameOverSent' = TRUE
                  /\ gameOverCalls' = gameOverCalls + 1
                  /\ gameOverArg' = Floor(score)
             ELSE UNCHANGED <<hasGameOverSent, gameOverCalls, gameOverArg>>
          /\ UNCHANGED reportedTicks
  ELSE /\ reportedTicks' = reportedTicks + 1
       /\ UNCHANGED <<gameOverTimerMs, msAfterHit, hasGameOverSent,
                      gameOverCalls, gameOverArg>>

\* the playing branch of one tick
Playing(dtMs, r, rnd) ==
  LET score1 == score + ScoreInc(4, speed, dtMs)
      speed1 == SpeedUp(speed, ACCELERATION)
      p1 == RunAnim(PlayerPhysics(player, PLAYER_BASE_Y), dtMs)
      fc1 == frameCount + 1
      spawn == SpawnDue(fc1, nextSpawnThreshold)
      obs1 == IF spawn THEN Append(obstacles, NewObstacle(r)) ELSE obstacles
      obs2 == MoveObstacles(obs1, speed1, - Px(100))
      hit == AnyHit(p1, obs2)
  IN /\ score' = score1
     /\ speed' = speed1
     /\ bgFarOffset' = bgFarOffset + Mul(speed1, 3, 10)
     /\ bgMidOffset' = bgMidOffset + Mul(speed1, 6, 10)
     /\ groundOffset' = groundOffset + speed1
     /\ frameCount' = IF spawn THEN 0 ELSE fc1
     /\ nextSpawnThreshold' = IF spawn THEN NextThreshold(SPAWN_BASE_MIN, rnd)
                              ELSE nextSpawnThreshold
     /\ obstacles' = obs2
     /\ player' = IF hit THEN [p1 EXCEPT !.animState = "die"] ELSE p1
     /\ isPlaying' = ~hit
     /\ gameOverTimerMs' = IF hit THEN GAME_OVER_DELAY ELSE gameOverTimerMs
     /\ scoreAtHit' = IF hit THEN score1 ELSE scoreAtHit
     /\ tickNo' = tickNo + 1
     /\ jumpAge' = IF p1.isJumping THEN jumpAge + 1 ELSE 0

(***************************************************************************)
(* The frame loop as React and the browser schedule it.  rafPending tells  *)
(* whether the frame whose id is in requestRef is pending; react.orphans   *)
(* holds the pending frames requestRef no longer names.                    *)
(***************************************************************************)
\* the pending frames left when frame k fires (0: the frame in requestRef)
Fired(rc, k) ==
  [rc EXCEPT !.orphans = SubSeq(@, 1, k - 1) \o SubSeq(@, k + 1, Len(@))]

\* if (s !== currentScore) setCurrentScore(s), currentScore being the value
\* the callback captured; React re-renders, re-creates update and re-runs
\* the effect only when the state changes
SetCurrentScore(rc, closure, s) ==
  IF s # closure /\ s # rc.currentScore
  THEN [rc EXCEPT !.currentScore = s, !.effectDue = TRUE]
  ELSE rc

\* requestRef.current = requestAnimationFrame(cb): a frame still pending
\* under the old id stays pending, but requestRef no longer names it
RequestFrame(rc, refPending, closure) ==
  [rc EXCEPT !.refClosure = closure,
             !.orphans = IF refPending THEN Append(@, rc.refClosure) ELSE @]

\* variant of EffectCleanup that cancels nothing
EffectCleanup_leak(refPending) == refPending

\* cancelAnimationFrame(requestRef.current): whether the frame in
\* requestRef is pending afterwards
EffectCleanup(refPending) == FALSE

update(time, r, rnd) ==
  /\ variant = "sprite"
  /\ \E k \in 0..Len(react.orphans) :
       /\ k = 0 => rafPending
       /\ LET closure == IF k = 0 THEN react.refClosure ELSE react.orphans[k]
              refPending == k # 0 /\ rafPending
              dtMs == DtMs(time)
          IN IF ~react.mounted
             THEN /\ react' = Fired(react, k)
                  /\ rafPending' = refPending
                  /\ UNCHANGED <<lastTime, simVars, tickNo, reportedTicks,
                                 gameOverCalls, gameOverArg, scoreAtHit,
                                 msAfterHit, lastDt, jumpAge>>
             ELSE /\ lastTime' = time
                  /\ lastDt' = dtMs
                  /\ IF ~isPlaying
                     THEN /\ GameOverTimer(dtMs)
                          /\ UNCHANGED <<score, isPlaying, speed, frameCount,
                                         nextSpawnThreshold, bgFarOffset,
                                         bgMidOffset, groundOffset, player,
                                         obstacles, scoreAtHit, tickNo,
                                         jumpAge>>
                     ELSE /\ Playing(dtMs, r, rnd)
                          /\ UNCHANGED <<hasGameOverSent, gameOverCalls,
                                         gameOverArg, msAfterHit,
                                         reportedTicks>>
                  /\ react' = RequestFrame(
                                IF isPlaying
                                THEN SetCurrentScore(Fired(react, k), closure,
                                                     Floor(score'))
                                ELSE Fired(react, k),
                                refPending, closure)
                  /\ rafPending' = TRUE
  /\ app' = IF gameOverCalls' > gameOverCalls
            THEN handleGameOver(app, gameOverArg') ELSE app
  /\ op' = "update"
  /\ UNCHANGED <<variant, clock, chara1Loaded, isGameOver, gameOverWaitMs,
                 hasJumped>>

(***************************************************************************)
(* update(time), src/unnamed/part_000                                      *)
(***************************************************************************)
\* the wait after death; dead is isGameOver as the playing branch left it,
\* hitNow tells whether this very tick detected the collision
GameOverWait(dtMs, dead, hitNow, sc) ==
  IF dead /\ ~hasGameOverSent
  THEN LET w == (IF hitNow THEN 0 ELSE gameOverWaitMs) + dtMs
       IN /\ gameOverWaitMs' = w
          /\ msAfterHit' = IF hitNow THEN msAfterHit ELSE msAfterHit + dtMs
          /\ IF w >= GAME_OVER_WAIT_p0
             THEN /\ hasGameOverSent' = TRUE
                  /\ gameOverCalls' = gameOverCalls + 1
                  /\ gameOverArg' = Floor(sc)
             ELSE UNCHANGED <<hasGameOverSent, gameOverCalls, gameOverArg>>
          /\ UNCHANGED reportedTicks
  ELSE /\ reportedTicks' = IF hasGameOverSent THEN reportedTicks + 1
                           ELSE reportedTicks
       /\ UNCHANGED <<gameOverWaitMs, msAfterHit, hasGameOverSent,
                      gameOverCalls, gameOverArg>>

Playing_p0(dtMs, r, rnd) ==
  LET score1 == score + ScoreInc(5, speed, dtMs)
      speed1 == SpeedUp(speed, ACCELERATION_p0)
      p1 == RunAnim(PlayerPhysics(player, FLOOR_Y), dtMs)
      fc1 == frameCount + 1
      spawn == SpawnDue(fc1, nextSpawnThreshold)
      obs1 == IF spawn THEN Append(obstacles, NewObstacle_p0(r))
              ELSE obstacles
      obs2 == MoveObstacles(obs1, speed1, - Px(120))
      hit == AnyHit_p0(p1, obs2)
  IN /\ score' = score1
     /\ speed' = speed1
     /\ bgFarOffset' = bgFarOffset + Mul(speed1, 3, 10)
     /\ bgMidOffset' = bgMidOffset + Mul(speed1, 6, 10)
     /\ groundOffset' = groundOffset + speed1
     /\ frameCount' = IF spawn THEN 0 ELSE fc1
     /\ nextSpawnThreshold' = IF spawn
                              THEN NextThreshold(SPAWN_BASE_MIN_p0, rnd)
                              ELSE nextSpawnThreshold
     /\ obstacles' = obs2
     /\ player' = IF hit THEN [p1 EXCEPT !.animState = "die"] ELSE p1
     /\ isPlaying' = ~hit
     /\ isGameOver' = hit
     /\ scoreAtHit' = IF hit THEN score1 ELSE scoreAtHit
     /\ tickNo' = tickNo + 1
     /\ jumpAge' = IF p1.isJumping THEN jumpAge + 1 ELSE 0
     /\ GameOverWait(dtMs, hit, hit, score1)

update_p0(time, r, rnd) ==
  /\ variant = "p000"
  /\ \E k \in 0..Len(react.orphans) :
       /\ k = 0 => rafPending
       /\ LET closure == IF k = 0 THEN react.refClosure ELSE react.orphans[k]
              refPending == k # 0 /\ rafPending
              dtMs == DtMs(time)
          IN IF ~react.mounted
             THEN /\ react' = Fired(react, k)
                  /\ rafPending' = refPending
                  /\ UNCHANGED <<lastTime, simVars, tickNo, reportedTicks,
                                 gameOverCalls, gameOverArg, scoreAtHit,
                                 msAfterHit, lastDt, jumpAge>>
             ELSE /\ lastTime' = time
                  /\ lastDt' = dtMs
                  /\ IF isPlaying
                     THEN Playing_p0(dtMs, r, rnd)
                     ELSE /\ GameOverWait(dtMs, isGameOver, FALSE, score)
                          /\ UNCHANGED <<score, isPlaying, isGameOver, speed,
                                         frameCount, nextSpawnThreshold,
                                         bgFarOffset, bgMidOffset,
                                         groundOffset, player, obstacles,
                                         scoreAtHit, tickNo, jumpAge>>
                  /\ react' = RequestFrame(
                                IF isPlaying
                                THEN SetCurrentScore(Fired(react, k), closure,
                                                     Floor(score'))
                                ELSE Fired(react, k),
                                refPending, closure)
                  /\ rafPending' = TRUE
  /\ app' = IF gameOverCalls' > gameOverCalls
            THEN handleGameOver(app, gameOverArg') ELSE app
  /\ op' = "update"
  /\ UNCHANGED <<variant, clock, chara1Loaded, gameOverTimerMs, hasJumped>>

(***************************************************************************)
(* The environment: animation frames, Math.random() and the button         *)
(***************************************************************************)
\* gaps between the timestamps of consecutive frames
Gaps ==
  IF ~isPlaying /\ ~hasGameOverSent THEN DtSet
  ELSE IF tickNo = 0 THEN {clock.first}
  ELSE {clock.frame}

\* how far a run is followed
Within(limit) ==
  /\ isPlaying => tickNo < limit
  /\ hasGameOverSent => reportedTicks < MaxReportedTicks

Frame(limit) ==
  /\ Within(limit)
  /\ \E dt \in Gaps, r \in TypeDraws, rnd \in ThresholdDraws :
       update(lastTime + dt, r, rnd)

Frame_p0(limit) ==
  /\ Within(limit)
  /\ \E dt \in Gaps, r \in TypeDraws, rnd \in ThresholdDraws :
       update_p0(lastTime + dt, r, rnd)

\* Spec follows a match up to the collision and the report, so while the
\* match is live the button is used sparingly: it goes down only when the
\* player stands on the ground, not before QuietTicks, and stays down until
\* the jump has landed.  Once the match is over it is pressed and released
\* at will.  SpecJump below explores presses and releases without limits.
Press ==
  /\ isPlaying => (tickNo >= QuietTicks /\ ~player.isJumping)
  /\ startJump

Release ==
  /\ ~isPlaying
  /\ endJump

Next == Frame(MaxTicks) \/ Frame_p0(MaxTicks) \/ Press \/ Release \/ loadAll

Spec == Init /\ [][Next]_vars

(***************************************************************************)
(* SpecJump: the start of a sprite match, before the first obstacle, with  *)
(* the button pressed and released at any moment                           *)
(***************************************************************************)
InitJump ==
  /\ clock = Steady
  /\ SetupEffect
  /\ InitSprite
  /\ InitObs

NextJump == Frame(JumpTicks) \/ startJump \/ endJump

SpecJump == InitJump /\ [][NextJump]_vars

(***************************************************************************)
(* SpecRamp: a long match in which nobody touches the button, followed     *)
(* until the speed ramp has saturated                                      *)
(***************************************************************************)
InitRamp ==
  /\ clock = Steady
  /\ SetupEffect
  /\ (InitSprite \/ Init_p0)
  /\ InitObs

NextRamp == Frame(RampTicks) \/ Frame_p0(RampTicks) \/ loadAll

SpecRamp == InitRamp /\ [][NextRamp]_vars

(***************************************************************************)
(* SpecLive: a match in which the button is touched only after the         *)
(* collision, with frames that keep arriving with increasing timestamps    *)
(* (update requests the next frame at the end of every tick)               *)
(***************************************************************************)
InitLive ==
  /\ clock \in Clocks
  /\ SetupEffect
  /\ InitSprite
  /\ InitObs

PressOver ==
  /\ ~isPlaying
  /\ startJump

NextLive == Frame(MaxTicks) \/ PressOver \/ Release

FrameAdvance == Frame(MaxTicks) /\ lastTime' > lastTime

SpecLive == InitLive /\ [][NextLive]_vars /\ WF_vars(FrameAdvance)

(***************************************************************************)
(* SpecSpawn: matches in which nobody touches the button, with the draws   *)
(* for the next spawn threshold spread over the range of Math.random()     *)
(***************************************************************************)
FrameDrawing(limit) ==
  /\ Within(limit)
  /\ \E dt \in Gaps, r \in TypeDraws, rnd \in SpawnDraws :
       update(lastTime + dt, r, rnd)

FrameDrawing_p0(limit) ==
  /\ Within(limit)
  /\ \E dt \in Gaps, r \in TypeDraws, rnd \in SpawnDraws :
       update_p0(lastTime + dt, r, rnd)

NextSpawn ==
  FrameDrawing(SpawnHorizon) \/ FrameDrawing_p0(SpawnHorizon) \/ loadAll

SpecSpawn == InitRamp /\ [][NextSpawn]_vars

(***************************************************************************)
(* SpecClear: a sprite match played by a user who presses the button when  *)
(* the hitbox of a ground obstacle is less than 12 ticks of travel         *)
(* away, holds it until the landing and never presses otherwise            *)
(***************************************************************************)
GroundTypes == {"GROUND_SMALL", "GROUND_LARGE"}

JumpCue ==
  /\ isPlaying /\ ~player.isJumping
  /\ \E i \in 1..Len(obstacles) :
       LET o == obstacles[i]
           gap == (o.x + Mul(o.width, 15, 100))
                    - (player.x + Mul(player.width, 8, 10))
       IN /\ o.type \in GroundTypes
          /\ gap > - o.width
          /\ gap < 12 * speed

PressCue == JumpCue /\ startJump

FrameIdle(limit) == ~JumpCue /\ Frame(limit)

NextClear == FrameIdle(ClearHorizon) \/ PressCue

SpecClear == InitJump /\ [][NextClear]_vars

(***************************************************************************)
(* SpecStand: a sprite match in which the user, at every cue, either       *)
(* presses or lets the frames go by                                        *)
(***************************************************************************)
NextStand == Frame(StandHorizon) \/ PressCue

SpecStand == InitJump /\ [][NextStand]_vars

(***************************************************************************)
(* SpecStall: a sprite match with the button pressed on cue or not at all, *)
(* in which one frame arrives 10 s after the previous one                  *)
(***************************************************************************)
FrameStall(limit) ==
  /\ Within(limit)
  /\ isPlaying /\ tickNo >= StallFrom
  /\ \A m \in MountTimes, gap \in StallGaps : lastTime < m + gap
  /\ \E gap \in StallGaps, r \in TypeDraws, rnd \in ThresholdDraws :
       update(lastTime + gap, r, rnd)

NextStall == Frame(StallHorizon) \/ FrameStall(StallHorizon) \/ PressCue

SpecStall == InitJump /\ [][NextStall]_vars

(***************************************************************************)
(* SpecArc: the start of a sprite match, before the first obstacle, with   *)
(* the button pressed at any moment and never released                     *)
(***************************************************************************)
NextArc == Frame(ArcHorizon) \/ startJump

SpecArc == InitJump /\ [][NextArc]_vars

(***************************************************************************)
(* The variant of src/components/GameScreen.tsx, lines 890-1152 ("v3").    *)
(* The player is [y, vy, state, jumpCount], the score accumulator counts   *)
(* 1/100 of a point (dt * 10 with dt in seconds is dtMs / 100).            *)
(***************************************************************************)
\* src/config/game.ts
gameConfig ==
  [initialSpeed |-> Px(6), maxSpeed |-> Px(15),
   acceleration |-> Mul(Unit, 2, 1000), gravity |-> Mul(Unit, 6, 10),
   jumpStrength |-> - Px(12), spawnRateMin |-> 60, spawnRateMax |-> 120]

\* the fields of config this variant reads that src/config/game.ts does
\* not define: the canvas and the player of the sprite variant, one jump
\* per grounded period
config ==
  [canvasWidth |-> CANVAS_W, canvasHeight |-> CANVAS_H,
   groundHeight |-> GROUND_HEIGHT, playerWidth |-> PLAYER_BASE_WIDTH,
   playerHeight |-> PLAYER_BASE_HEIGHT, maxJumps |-> 1]

groundY_v3 == config.canvasHeight - config.groundHeight - config.playerHeight

InitPlayer_v3 ==
  [y |-> groundY_v3, vy |-> 0, state |-> "RUNNING", jumpCount |-> 0]

Init_v3 ==
  /\ variant = "v3"
  /\ score = 0
  /\ isPlaying = TRUE
  /\ hasGameOverSent = FALSE
  /\ gameOverTimerMs = 0
  /\ isGameOver = FALSE
  /\ gameOverWaitMs = 0
  /\ speed = gameConfig.initialSpeed
  /\ frameCount = 0
  /\ nextSpawnThreshold = 0
  /\ bgFarOffset = 0
  /\ bgMidOffset = 0
  /\ groundOffset = 0
  /\ player = InitPlayer_v3
  /\ obstacles = <<>>
  /\ chara1Loaded = FALSE

\* spawnObstacle(): r picks the type, fly is the draw for a flying height
\* (both in hundredths)
spawnObstacle(r, fly) ==
  LET type == <<"GROUND_SMALL", "GROUND_LARGE", "FLY_SMALL",
                "FLY_LARGE">>[(r * 4) \div 100 + 1]
      large == type \in {"GROUND_LARGE", "FLY_LARGE"}
      y0 == config.canvasHeight - config.groundHeight - Px(50)
  IN [x |-> config.canvasWidth,
      y |-> IF type \in {"FLY_SMALL", "FLY_LARGE"}
            THEN y0 - (Px(80) + Px(fly)) ELSE y0,
      width |-> IF large THEN Px(80) ELSE Px(50),
      height |-> IF large THEN Px(80) ELSE Px(50),
      type |-> type]

\* hitX && hitY of the filter callback
Hit_v3(p, o) ==
  /\ p.y < o.y + o.height
  /\ p.y + config.playerHeight > o.y
  /\ Px(50) < o.x + o.width
  /\ Px(50) + config.playerWidth > o.x

\* the player after gravity and landing
PlayerPhysics_v3(p) ==
  LET vy1 == p.vy + gameConfig.gravity
      y1 == p.y + vy1
  IN IF y1 > groundY_v3
     THEN [p EXCEPT !.y = groundY_v3, !.vy = 0, !.state = "RUNNING",
                    !.jumpCount = 0]
     ELSE [p EXCEPT !.y = y1, !.vy = vy1]

update_v3(time, spawn, r, fly) ==
  /\ variant = "v3"
  /\ rafPending
  /\ react.mounted
  /\ LET dtMs == time - lastTime
     IN /\ lastTime' = time
        /\ lastDt' = dtMs
        /\ IF player.state # "CRASHED"
           THEN LET score1 == score + dtMs
                    speed1 == gameConfig.initialSpeed
                              + Mul(score1, Unit, 10000)
                    p1 == PlayerPhysics_v3(player)
                    obs1 == IF spawn
                            THEN Append(obstacles, spawnObstacle(r, fly))
                            ELSE obstacles
                    obs2 == [i \in 1..Len(obs1) |->
                               [obs1[i] EXCEPT !.x = @ - speed1]]
                    hits == {i \in 1..Len(obs2) : Hit_v3(p1, obs2[i])}
                    keep(o) == ~Hit_v3(p1, o) /\ o.x > - Px(100)
                IN /\ score' = score1
                   /\ react' = [react EXCEPT
                                  !.currentScore = score1 \div 100]
                   /\ speed' = speed1
                   /\ bgFarOffset' = (bgFarOffset + Mul(speed1, 2, 10))
                                       % config.canvasWidth
                   /\ bgMidOffset' = (bgMidOffset + Mul(speed1, 5, 10))
                                       % config.canvasWidth
                   /\ groundOffset' = (groundOffset + speed1)
                                        % config.canvasWidth
                   /\ obstacles' = SelectSeq(obs2, keep)
                   /\ player' = IF hits # {}
                                THEN [p1 EXCEPT !.state = "CRASHED"]
                                ELSE p1
                   /\ gameOverCalls' = gameOverCalls + Cardinality(hits)
                   /\ gameOverArg' = IF hits # {} THEN score1 \div 100
                                     ELSE gameOverArg
                   /\ scoreAtHit' = IF hits # {} THEN score1 ELSE scoreAtHit
                   /\ tickNo' = tickNo + 1
                   /\ UNCHANGED reportedTicks
           ELSE /\ reportedTicks' = reportedTicks + 1
                /\ UNCHANGED <<score, react, speed, bgFarOffset, bgMidOffset,
                               groundOffset, obstacles, player, gameOverCalls,
                               gameOverArg, scoreAtHit, tickNo>>
  /\ rafPending' = TRUE
  /\ app' = IF gameOverCalls' > gameOverCalls
            THEN handleGameOver(app, gameOverArg') ELSE app
  /\ op' = "update"
  /\ UNCHANGED <<variant, clock, chara1Loaded, isPlaying, hasGameOverSent,
                 gameOverTimerMs, isGameOver, gameOverWaitMs, frameCount,
                 nextSpawnThreshold, hasJumped, msAfterHit, jumpAge>>

startJump_v3 ==
  /\ variant = "v3"
  /\ player' = IF player.state # "CRASHED"
                  /\ player.jumpCount < config.maxJumps
               THEN [player EXCEPT !.vy = gameConfig.jumpStrength,
                                   !.jumpCount = @ + 1,
                                   !.state = "JUMPING"]
               ELSE player
  /\ hasJumped' = (hasJumped \/ player' # player)
  /\ op' = "startJump"
  /\ UNCHANGED <<variant, clock, app, rafPending, lastTime, chara1Loaded, react,
                 score, isPlaying, hasGameOverSent, gameOverTimerMs,
                 isGameOver, gameOverWaitMs, speed, frameCount,
                 nextSpawnThreshold, bgFarOffset, bgMidOffset, groundOffset,
                 obstacles, tickNo, reportedTicks, gameOverCalls,
                 gameOverArg, scoreAtHit, msAfterHit, lastDt, jumpAge>>

\* Math.random() < 0.015: the outcomes explored at this tick
SpawnOutcomes ==
  IF tickNo < SpawnWindow /\ Len(obstacles) < 2 THEN BOOLEAN ELSE {FALSE}
\* Math.random() draws of spawnObstacle, in hundredths
TypeDraws_v3 == {0, 30, 60}
FlyDraws == {0}

Frame_v3 ==
  /\ player.state # "CRASHED" => tickNo < V3Horizon
  /\ player.state = "CRASHED" => reportedTicks < MaxReportedTicks
  /\ \E spawn \in SpawnOutcomes, r \in TypeDraws_v3, fly \in FlyDraws :
       update_v3(lastTime + clock.frame, spawn, r, fly)

Press_v3 ==
  /\ ~hasJumped
  /\ tickNo >= JumpFrom
  /\ startJump_v3

InitV3 ==
  /\ clock = Steady
  /\ SetupEffect
  /\ Init_v3
  /\ InitObs

NextV3 == Frame_v3 \/ Press_v3

SpecV3 == InitV3 /\ [][NextV3]_vars

(***************************************************************************)
(* src/unnamed/part_001 ("p001").  The player is [x, y, dy, isJumping,     *)
(* width, height]; the score accumulator counts 1/(60 * Unit) of a point   *)
(* (0.1 * speed / initialSpeed is speed / 60 px).                          *)
(***************************************************************************)
logicalHeight == Px(300)

InitPlayer_p1 ==
  [x |-> Px(50), y |-> 0, dy |-> 0, isJumping |-> FALSE,
   width |-> Px(40), height |-> Px(40)]

groundY_p1 == logicalHeight - Px(20) - InitPlayer_p1.height

Init_p1 ==
  /\ variant = "p001"
  /\ score = 0
  /\ isPlaying = TRUE
  /\ hasGameOverSent = FALSE
  /\ gameOverTimerMs = 0
  /\ isGameOver = FALSE
  /\ gameOverWaitMs = 0
  /\ speed = gameConfig.initialSpeed
  /\ frameCount = 0
  /\ nextSpawnThreshold = 0
  /\ bgFarOffset = 0
  /\ bgMidOffset = 0
  /\ groundOffset = 0
  /\ player = InitPlayer_p1
  /\ obstacles = <<>>
  /\ chara1Loaded = FALSE

\* the player after gravity and the ground clamp
PlayerPhysics_p1(p) ==
  LET dy1 == p.dy + gameConfig.gravity
      y1 == p.y + dy1
  IN IF y1 > groundY_p1
     THEN [p EXCEPT !.y = groundY_p1, !.dy = 0, !.isJumping = FALSE]
     ELSE [p EXCEPT !.y = y1, !.dy = dy1]

\* frameCount > Math.random() * (spawnRateMax - spawnRateMin) + spawnRateMin,
\* rnd in hundredths
SpawnDue_p1(fc, rnd) ==
  fc * 100 > rnd * (gameConfig.spawnRateMax - gameConfig.spawnRateMin)
             + gameConfig.spawnRateMin * 100

NewObstacle_p1(logicalWidth) ==
  [x |-> logicalWidth + Px(50), y |-> groundY_p1 + Px(10),
   width |-> Px(30), height |-> Px(30), markedForDeletion |-> FALSE]

\* the collision test of the forEach, pPadding = 5
Hit_p1(p, o) ==
  /\ p.x < o.x + o.width - Px(5)
  /\ p.x + p.width - Px(5) > o.x
  /\ p.y < o.y + o.height - Px(5)
  /\ p.y + p.height - Px(5) > o.y

update_p1(logicalWidth, rnd) ==
  /\ variant = "p001"
  /\ rafPending
  /\ react.mounted
  /\ IF isPlaying
     THEN LET speed1 == Min(gameConfig.maxSpeed,
                            speed + gameConfig.acceleration)
              score1 == score + speed1
              s == score1 \div (60 * Unit)
              p1 == PlayerPhysics_p1(player)
              fc1 == frameCount + 1
              spawn == SpawnDue_p1(fc1, rnd)
              obs1 == IF spawn
                      THEN Append(obstacles, NewObstacle_p1(logicalWidth))
                      ELSE obstacles
              obs2 == [i \in 1..Len(obs1) |->
                         LET x1 == obs1[i].x - speed1
                         IN [obs1[i] EXCEPT
                               !.x = x1,
                               !.markedForDeletion =
                                  @ \/ x1 + obs1[i].width < - Px(100)]]
              hits == {i \in 1..Len(obs2) : Hit_p1(p1, obs2[i])}
              keep(o) == ~o.markedForDeletion
          IN /\ speed' = speed1
             /\ score' = score1
             /\ react' = IF s > react.refClosure /\ s # react.currentScore
                         THEN [react EXCEPT !.currentScore = s,
                                            !.effectDue = TRUE]
                         ELSE react
             /\ player' = p1
             /\ frameCount' = IF spawn THEN 0 ELSE fc1
             /\ obstacles' = SelectSeq(obs2, keep)
             /\ isPlaying' = (hits = {})
             /\ gameOverCalls' = gameOverCalls + Cardinality(hits)
             /\ gameOverArg' = IF hits # {} THEN s ELSE gameOverArg
             /\ scoreAtHit' = IF hits # {} THEN score1 ELSE scoreAtHit
             /\ tickNo' = tickNo + 1
             /\ jumpAge' = IF p1.isJumping THEN jumpAge + 1 ELSE 0
             /\ UNCHANGED reportedTicks
     ELSE /\ reportedTicks' = reportedTicks + 1
          /\ UNCHANGED <<speed, score, react, player, frameCount, obstacles,
                         isPlaying, gameOverCalls, gameOverArg, scoreAtHit,
                         tickNo, jumpAge>>
  /\ rafPending' = TRUE
  /\ app' = IF gameOverCalls' > gameOverCalls
            THEN handleGameOver(app, gameOverArg') ELSE app
  /\ op' = "update"
  /\ UNCHANGED <<variant, clock, lastTime, chara1Loaded, hasGameOverSent,
                 gameOverTimerMs, isGameOver, gameOverWaitMs,
                 nextSpawnThreshold, bgFarOffset, bgMidOffset, groundOffset,
                 hasJumped, msAfterHit, lastDt>>

jump ==
  /\ variant = "p001"
  /\ player' = IF ~player.isJumping /\ isPlaying
               THEN [player EXCEPT !.dy = gameConfig.jumpStrength,
                                   !.isJumping = TRUE]
               ELSE player
  /\ hasJumped' = (hasJumped \/ player' # player)
  /\ jumpAge' = IF player' # player THEN 0 ELSE jumpAge
  /\ op' = "jump"
  /\ UNCHANGED <<variant, clock, app, rafPending, lastTime, chara1Loaded, react,
                 score, isPlaying, hasGameOverSent, gameOverTimerMs,
                 isGameOver, gameOverWaitMs, speed, frameCount,
                 nextSpawnThreshold, bgFarOffset, bgMidOffset, groundOffset,
                 obstacles, tickNo, reportedTicks, gameOverCalls,
                 gameOverArg, scoreAtHit, msAfterHit, lastDt>>

\* rect.width / scale of the parent element at a tick
LogicalWidths == {Px(600), Px(220)}
\* Math.random() draws of the spawn test, in hundredths
RateDraws == {0, 99}

Frame_p1 ==
  /\ isPlaying => tickNo < P1Horizon
  /\ ~isPlaying => reportedTicks < MaxReportedTicks
  /\ \E w \in LogicalWidths, rnd \in RateDraws : update_p1(w, rnd)

Tap ==
  /\ tickNo < TapTicks
  /\ jump

InitP1 ==
  /\ clock = Steady
  /\ SetupEffect
  /\ Init_p1
  /\ InitObs

NextP1 == Frame_p1 \/ Tap

SpecP1 == InitP1 /\ [][NextP1]_vars

(***************************************************************************)
(* React's effect runs: the effect [update] re-runs once the displayed     *)
(* score has changed, and its cleanup runs when the component goes away    *)
(***************************************************************************)
\* performance.now() of an effect run, as a lag behind the last frame
EffectLags == {0, 4}

\* cleanup of the old effect, then the effect body with the new update
EffectRerun(now) ==
  /\ react.mounted
  /\ react.effectDue
  /\ lastTime' = now
  /\ react' = [RequestFrame(react, EffectCleanup(rafPending),
                            react.currentScore) EXCEPT !.effectDue = FALSE]
  /\ rafPending' = TRUE
  /\ op' = "effect"
  /\ UNCHANGED <<variant, clock, app, chara1Loaded, simVars, tickNo, reportedTicks,
                 gameOverCalls, gameOverArg, scoreAtHit, hasJumped,
                 msAfterHit, lastDt, jumpAge>>

\* the component is unmounted: the cleanup runs and canvasRef is detached
Teardown ==
  /\ react.mounted
  /\ rafPending' = EffectCleanup(rafPending)
  /\ react' = [react EXCEPT !.mounted = FALSE, !.effectDue = FALSE]
  /\ op' = "unmount"
  /\ UNCHANGED <<variant, clock, app, lastTime, chara1Loaded, simVars, tickNo,
                 reportedTicks, gameOverCalls, gameOverArg, scoreAtHit,
                 hasJumped, msAfterHit, lastDt, jumpAge>>

InitEffect ==
  /\ Init
  /\ variant = "sprite"
  /\ clock = Steady

Rerun == \E lag \in EffectLags : EffectRerun(lastTime + lag)

NextEffect == Frame(EffectHorizon) \/ Rerun \/ Teardown

SpecEffect == InitEffect /\ [][NextEffect]_vars

(***************************************************************************)
(* The App and its screens: src/types.ts (App.tsx, services/firebase.ts),  *)
(* PinScreen.tsx, ResultScreen.tsx, RankingScreen.tsx.  GameScreen is the  *)
(* sprite variant.  A click is a discrete event: React commits its updates *)
(* before the next event is handled, and so it does for resize.  Updates   *)
(* made by a timer, a promise or an animation frame are committed by a     *)
(* later task (Render).                                                    *)
(***************************************************************************)
\* SpecApp: GameScreen mounts, orientation changes and ticks explored.
\* While a match is live, the orientation, the backend's answers and the
\* timers act during its first AppEventTicks ticks only, and so does the
\* button, which is also pressed when an obstacle comes near; they act
\* freely once it has collided.  The re-runs of GameScreen's frame effect are
\* explored by SpecEffect
MaxMatches == 2
MaxFlips == 2
AppHorizon == 270
AppEventTicks == 1
\* the keys pressed on the PIN pad
Digits == {1, 2}
\* localStorage's entry when the page loads: absent, the PIN or another
StoredPins == {<<>>, eventConfig.pin, <<2, 2, 2, 2>>}
\* the backend's answer to a request
Backend == {"ok", "error"}
\* Math.random() draws of the matches played in the App
AppTypeDraws == {0}

\* no match is live, or the live match is in its first ticks
Calm == (app.shown = "GAME" /\ isPlaying) => tickNo < AppEventTicks

\* what App's render returns
Screen(a) == IF a.isPortrait THEN "WARN" ELSE a.appState

\* a screen is unmounted: its state is dropped, the requests it sent go on
Unmounted(a, from) ==
  IF from = "PIN" THEN [a EXCEPT !.input = <<>>, !.error = FALSE]
  ELSE IF from = "RESULT"
  THEN [a EXCEPT !.selectedName = FALSE, !.isSubmitting = FALSE,
                 !.hasSubmitted = FALSE,
                 !.inFlight = [i \in DOMAIN a.inFlight |->
                                 [a.inFlight[i] EXCEPT !.live = FALSE]]]
  ELSE IF from = "RANKING"
  THEN [a EXCEPT !.fetching = FALSE, !.scores = "none", !.loading = FALSE]
  ELSE a

\* a screen is mounted: useState's initial values and the mount effect
Mounted(a, to) ==
  IF to = "PIN"
  THEN IF a.storage = eventConfig.pin
       THEN [a EXCEPT !.appState = "TITLE", !.pinFound = TRUE]
       ELSE a
  ELSE IF to = "RANKING"
  THEN [a EXCEPT !.fetching = TRUE, !.loading = TRUE]
  ELSE IF to = "GAME" THEN [a EXCEPT !.matches = @ + 1]
  ELSE a

\* GameScreen is not touched
GameKept ==
  UNCHANGED <<variant, clock, rafPending, lastTime, chara1Loaded, react,
              simVars, tickNo, reportedTicks, gameOverCalls, gameOverArg,
              scoreAtHit, hasJumped, msAfterHit, lastDt, jumpAge>>

\* variant of MountGame that finds the refs of the previous match
MountGame_stale ==
  /\ lastTime' \in MountTimes
  /\ rafPending' = TRUE
  /\ react' = [mounted |-> TRUE, effectDue |-> FALSE, currentScore |-> 0,
               refClosure |-> 0, orphans |-> <<>>]
  /\ UNCHANGED <<variant, clock, chara1Loaded, simVars, tickNo,
                 reportedTicks, gameOverCalls, gameOverArg, scoreAtHit,
                 hasJumped, msAfterHit, lastDt, jumpAge>>

\* GameScreen is mounted: the useRef/useState initial values and the setup
\* effect
MountGame ==
  /\ score' = 0
  /\ isPlaying' = TRUE
  /\ hasGameOverSent' = FALSE
  /\ gameOverTimerMs' = 0
  /\ speed' = INITIAL_SPEED
  /\ frameCount' = 0
  /\ nextSpawnThreshold' = SPAWN_BASE_MIN * 100
  /\ bgFarOffset' = 0
  /\ bgMidOffset' = 0
  /\ groundOffset' = 0
  /\ player' = InitPlayer
  /\ obstacles' = <<>>
  /\ lastTime' \in MountTimes
  /\ rafPending' = TRUE
  /\ react' = [mounted |-> TRUE, effectDue |-> FALSE, currentScore |-> 0,
               refClosure |-> 0, orphans |-> <<>>]
  /\ tickNo' = 0
  /\ reportedTicks' = 0
  /\ scoreAtHit' = -1
  /\ hasJumped' = FALSE
  /\ msAfterHit' = 0
  /\ lastDt' = 0
  /\ jumpAge' = 0
  /\ UNCHANGED <<variant, clock, chara1Loaded, isGameOver, gameOverWaitMs,
                 gameOverCalls, gameOverArg>>

\* GameScreen is unmounted: the cleanup of its effect
UnmountGame ==
  /\ rafPending' = EffectCleanup(rafPending)
  /\ react' = [react EXCEPT !.mounted = FALSE, !.effectDue = FALSE]
  /\ UNCHANGED <<variant, clock, lastTime, chara1Loaded, simVars, tickNo,
                 reportedTicks, gameOverCalls, gameOverArg, scoreAtHit,
                 hasJumped, msAfterHit, lastDt, jumpAge>>

\* React commits the App with state a
Commit(a) ==
  LET from == app.shown
      to == Screen(a)
  IN IF from = to
     THEN /\ app' = a
          /\ GameKept
     ELSE /\ app' = [Mounted(Unmounted(a, from), to) EXCEPT !.shown = to]
          /\ IF to = "GAME" THEN a.matches < MaxMatches /\ MountGame
             ELSE IF from = "GAME" THEN UnmountGame
             ELSE GameKept

\* the committed App differs from its state: the scheduled render
Render ==
  /\ Screen(app) # app.shown
  /\ Commit(app)
  /\ op' = "render"

\* the 500 ms timer of App's load effect
LoadTimer ==
  /\ app.loadTimer # "done"
  /\ app' = [app EXCEPT !.appState = app.loadTimer, !.loadTimer = "done",
                        !.pinFound = (app.loadTimer = "TITLE")]
  /\ GameKept
  /\ op' = "loadTimer"

\* checkOrientation on a resize that changed the orientation
Resize ==
  /\ app.flips < MaxFlips
  /\ Commit([app EXCEPT !.isPortrait = ~@, !.flips = @ + 1])
  /\ op' = "resize"

handleNumClick(d) ==
  /\ app.shown = "PIN"
  /\ Commit([app EXCEPT !.error = FALSE,
                        !.input = IF Len(@) < 4 THEN Append(@, d) ELSE @])
  /\ op' = "numClick"

handleBackspace ==
  /\ app.shown = "PIN"
  /\ Commit([app EXCEPT !.error = FALSE,
                        !.input = SubSeq(@, 1, Len(@) - 1)])
  /\ op' = "backspace"

handleClear ==
  /\ app.shown = "PIN"
  /\ Commit([app EXCEPT !.error = FALSE, !.input = <<>>])
  /\ op' = "clear"

\* variant of handleSubmit_pin that accepts any four digits
handleSubmit_pin_any ==
  /\ app.shown = "PIN"
  /\ Len(app.input) = 4
  /\ Commit([app EXCEPT !.storage = app.input, !.appState = "TITLE",
                        !.pinFound = TRUE])
  /\ op' = "pinSubmit"

\* PinScreen's handleSubmit, behind a button that is disabled unless four
\* digits are entered
handleSubmit_pin ==
  /\ app.shown = "PIN"
  /\ Len(app.input) = 4
  /\ Commit(IF app.input = eventConfig.pin
            THEN [app EXCEPT !.storage = app.input, !.appState = "TITLE",
                             !.pinFound = TRUE]
            ELSE [app EXCEPT !.error = TRUE, !.input = <<>>])
  /\ op' = "pinSubmit"

startGame ==
  /\ app.shown = "TITLE"
  /\ Commit([app EXCEPT !.appState = "GAME"])
  /\ op' = "startGame"

\* the ranking button of the title screen
showRanking ==
  /\ app.shown = "TITLE"
  /\ Commit([app EXCEPT !.appState = "RANKING"])
  /\ op' = "showRanking"

backToTitle ==
  /\ app.shown = "RANKING"
  /\ Commit([app EXCEPT !.appState = "TITLE"])
  /\ op' = "back"

\* a name of the list is tapped
SelectName ==
  /\ app.shown = "RESULT"
  /\ ~app.hasSubmitted
  /\ ~app.selectedName
  /\ Commit([app EXCEPT !.selectedName = TRUE])
  /\ op' = "selectName"

\* ResultScreen's handleSubmit up to its await
handleSubmit ==
  /\ app.shown = "RESULT"
  /\ ~app.hasSubmitted
  /\ app.selectedName /\ ~app.isSubmitting
  /\ Commit([app EXCEPT !.isSubmitting = TRUE,
                        !.inFlight = Append(@, [live |-> TRUE,
                                                score |-> app.lastScore])])
  /\ op' = "submit"

handleRetry ==
  /\ app.shown = "RESULT"
  /\ ~app.hasSubmitted
  /\ Commit([app EXCEPT !.appState = "GAME"])
  /\ op' = "retry"

\* services/firebase.ts
\* variant of saveScore that reports a failed write as a success
saveScore_blind(db) == TRUE

saveScore(db) == IF db = "ok" THEN TRUE ELSE FALSE

getRanking(db) == IF db = "ok" THEN "list" ELSE "empty"

\* request i is answered: handleSubmit after its await.  The setters of an
\* unmounted screen do nothing, the rest of the continuation runs
SaveScoreDone(i, db) ==
  /\ i \in DOMAIN app.inFlight
  /\ LET success == saveScore(db)
         live == app.inFlight[i].live
     IN app' = [app EXCEPT
                  !.inFlight = SubSeq(@, 1, i - 1) \o SubSeq(@, i + 1, Len(@)),
                  !.isSubmitting = IF live THEN FALSE ELSE @,
                  !.hasSubmitted = IF live /\ success THEN TRUE ELSE @,
                  !.rankTimers = IF success THEN @ + 1 ELSE @,
                  !.savedHere = IF db = "ok" THEN @ + 1 ELSE @]
  /\ GameKept
  /\ op' = IF db = "ok" THEN "saved" ELSE "saveFailed"

\* the 1000 ms timer of handleSubmit
RankTimer ==
  /\ app.rankTimers > 0
  /\ app' = [app EXCEPT !.rankTimers = @ - 1, !.appState = "RANKING"]
  /\ GameKept
  /\ op' = "rankTimer"

\* RankingScreen's fetchData after its await
FetchDone(db) ==
  /\ app.fetching
  /\ app' = [app EXCEPT !.fetching = FALSE, !.scores = getRanking(db),
                        !.loading = FALSE]
  /\ GameKept
  /\ op' = IF db = "ok" THEN "fetched" ELSE "fetchFailed"

Frame_app ==
  /\ Within(AppHorizon)
  /\ \E dt \in Gaps, r \in AppTypeDraws, rnd \in ThresholdDraws :
       update(lastTime + dt, r, rnd)

\* the hitbox of a ground obstacle has just come within 12 ticks of travel
FirstCue ==
  \E i \in 1..Len(obstacles) :
    LET o == obstacles[i]
        gap == (o.x + Mul(o.width, 15, 100))
                 - (player.x + Mul(player.width, 8, 10))
    IN /\ o.type \in GroundTypes
       /\ gap >= 11 * speed
       /\ gap < 12 * speed

Press_app ==
  /\ app.shown = "GAME"
  /\ Calm \/ FirstCue
  /\ isPlaying /\ ~player.isJumping
  /\ startJump

InitApp ==
  /\ variant = "sprite"
  /\ clock = Steady
  /\ app \in {AppMounted(s, p) : s \in StoredPins, p \in BOOLEAN}
  /\ lastTime = 0
  /\ rafPending = FALSE
  /\ react = [mounted |-> FALSE, effectDue |-> FALSE, currentScore |-> 0,
              refClosure |-> 0, orphans |-> <<>>]
  /\ InitSprite
  /\ InitObs

NextApp ==
  \/ LoadTimer
  \/ Calm /\ Render
  \/ Calm /\ Resize
  \/ \E d \in Digits : handleNumClick(d)
  \/ handleBackspace
  \/ handleClear
  \/ handleSubmit_pin
  \/ startGame
  \/ showRanking
  \/ backToTitle
  \/ SelectName
  \/ handleSubmit
  \/ handleRetry
  \/ Calm /\ \E i \in 1..MaxMatches + MaxFlips, db \in Backend :
               SaveScoreDone(i, db)
  \/ Calm /\ RankTimer
  \/ \E db \in Backend : FetchDone(db)
  \/ Frame_app
  \/ Press_app

SpecApp == InitApp /\ [][NextApp]_vars

(***************************************************************************)
(* Properties                                                              *)
(***************************************************************************)
\* a step that ran the playing branch of update
PlayingTick == tickNo' = tickNo + 1
\* a step in which update detected the collision
HitTick == isPlaying /\ ~isPlaying'
\* a step made by a button handler
ButtonCall == op' \in {"startJump", "endJump"}
AccelerationOf(v) == IF v = "sprite" THEN ACCELERATION ELSE ACCELERATION_p0

\* C1: in both variants onGameOver is invoked at most once per match,
\* however many ticks run after the collision and the report.
C1_AtMostOnce == gameOverCalls <= 1

C1_Witness == gameOverCalls = 1 /\ reportedTicks >= 1 /\ op = "update"

\* C2: once the collision has ended the sprite match, frames that keep
\* arriving with increasing timestamps lead to the onGameOver report; every
\* tick of the delay stores the timestamp, keeps a frame requested and moves
\* the timer by the timestamp gap.
C2_EventuallyReported ==
  /\ (variant = "sprite" /\ ~isPlaying) ~> hasGameOverSent
  /\ [][(variant = "sprite" /\ ~isPlaying /\ ~hasGameOverSent
          /\ lastTime' # lastTime)
        => (/\ rafPending'
            /\ gameOverTimerMs' = gameOverTimerMs - (lastTime' - lastTime))]_vars

C2_Witness ==
  variant = "sprite" /\ hasGameOverSent /\ msAfterHit > 1000

\* C3: the sprite variant never invokes onGameOver in the tick that detects
\* the collision, and when it is invoked the ticks after the collision tick
\* have accumulated at least 1000 ms.
C3_ReportAfterDelay ==
  /\ [](variant = "sprite" /\ gameOverCalls > 0 => msAfterHit >= 1000)
  /\ [][variant = "sprite" /\ HitTick
        => gameOverCalls' = gameOverCalls]_vars

C3_Witness ==
  variant = "sprite" /\ gameOverCalls = 1 /\ msAfterHit = 1000

\* C4 (as claimed): part_000 invokes onGameOver only after 1000 ms of tick
\* time have passed since the collision tick, never in the collision tick.
C4_DelayAfterHit ==
  /\ [](variant = "p000" /\ gameOverCalls > 0 => msAfterHit >= 1000)
  /\ [][variant = "p000" /\ HitTick => gameOverCalls' = gameOverCalls]_vars

\* C5: the value passed to onGameOver is the floor of the score as it stood
\* at the end of the collision tick, and it is not negative.
C5_ReportedScore ==
  gameOverCalls > 0 => (gameOverArg = scoreAtHit \div ScoreDen
                        /\ gameOverArg >= 0)

C5_Witness ==
  variant = "sprite" /\ gameOverCalls = 1 /\ gameOverArg > 0

\* C6 (as claimed): the score never decreases from one tick to the next
\* while the match is live and never changes after the collision tick.
C6_ScoreMonotone ==
  [][/\ isPlaying => score' >= score
     /\ ~isPlaying => score' = score]_vars

\* C7: speed stays within [INITIAL_SPEED, MAX_SPEED]; a playing tick
\* replaces it by min(MAX_SPEED, speed + ACCELERATION), so it never
\* decreases, and no other step changes it.
C7_SpeedRamp ==
  /\ [](INITIAL_SPEED <= speed /\ speed <= MAX_SPEED)
  /\ [][/\ PlayingTick =>
             speed' = IF speed + AccelerationOf(variant) > MAX_SPEED
                      THEN MAX_SPEED
                      ELSE speed + AccelerationOf(variant)
        /\ ~PlayingTick => speed' = speed
        /\ speed' >= speed]_vars

C7_Witness == isPlaying /\ speed = MAX_SPEED /\ tickNo > 0

\* C8: the player's feet are never below the ground line, whatever ticks
\* and startJump/endJump calls have happened.
C8_GroundClamp == variant = "sprite" => player.y <= PLAYER_BASE_Y

C8_Witness ==
  /\ hasJumped /\ op = "update"
  /\ ~player.isJumping /\ player.y = PLAYER_BASE_Y /\ player.dy = 0

\* C9: startJump changes the state only when the match is live and the
\* player is not jumping, and then starts a jump with dy = JUMP_STRENGTH;
\* a jump ends only when a tick lands the player on the ground line.
C9_SingleJump ==
  [][/\ (op' = "startJump" /\ player' # player)
          => (/\ isPlaying /\ ~player.isJumping
              /\ player'.isJumping /\ player'.dy = JUMP_STRENGTH)
     /\ op' = "startJump"
          => UNCHANGED <<score, isPlaying, speed, frameCount, obstacles>>
     /\ (player.isJumping /\ ~player'.isJumping)
          => (/\ op' = "update"
              /\ player'.y = PLAYER_BASE_Y /\ player'.dy = 0)]_vars

C9_Witness ==
  /\ op = "startJump" /\ isPlaying
  /\ player.isJumping /\ player.dy > JUMP_STRENGTH

\* C10 (as claimed): once the match is over, startJump and endJump leave
\* every field of the simulation state unchanged.
C10_DeadInputsNoOp ==
  [][(~isPlaying /\ ButtonCall) => UNCHANGED simVars]_vars

\* C11: a jump that is never released rises for 18 ticks to a single peak,
\* falls for 19 ticks and lands on the 37th tick after the take-off, on the
\* ground line with dy = 0, isJumping false and the run animation back; on
\* every earlier tick of the jump the player is above the ground line.
C11_JumpArc ==
  [][(op' = "update" /\ player.isJumping) =>
       /\ jumpAge + 1 < 37 =>
             (/\ player'.isJumping /\ player'.animState = "jump"
              /\ player'.y < PLAYER_BASE_Y /\ jumpAge' = jumpAge + 1)
       /\ jumpAge + 1 >= 37 =>
             (/\ jumpAge + 1 = 37
              /\ ~player'.isJumping /\ player'.animState = "run"
              /\ player'.y = PLAYER_BASE_Y /\ player'.dy = 0)
       /\ jumpAge < 18 => player'.y < player.y
       /\ jumpAge >= 18 => player'.y > player.y
       /\ (37 - 18) - 18 \in {-1, 0, 1}]_vars

C11_Witness ==
  /\ hasJumped /\ op = "update" /\ tickNo >= 37 /\ jumpAge = 0
  /\ ~player.isJumping /\ player.animState = "run"
  /\ player.y = PLAYER_BASE_Y /\ player.dy = 0

\* C12: an endJump that takes effect (the player is jumping with dy < -2)
\* makes the peak the jump reaches strictly lower than the peak it reaches
\* when held, and releasing one tick later never gives a lower peak than
\* releasing now.  A tick that takes the player higher does not change the
\* peak ahead, and no tick takes the player above it.
C12_ReleaseLowersPeak ==
  [][/\ (op' = "endJump" /\ player' # player)
          => PeakOf(player') > PeakOf(player)
     /\ (/\ op' = "update" /\ player.isJumping /\ player'.isJumping
         /\ player.dy < - Px(2) /\ player'.dy < - Px(2))
          => PeakOf(EndJumpPlayer(player')) <= PeakOf(EndJumpPlayer(player))
     /\ (op' = "update" /\ player.isJumping /\ player'.isJumping)
          => (/\ player'.y < player.y => PeakOf(player') = PeakOf(player)
              /\ player'.y >= PeakOf(player))]_vars

C12_Witness ==
  /\ op = "endJump" /\ player.isJumping /\ jumpAge > 0
  /\ player.dy < 0 /\ player.dy > - Px(2)
  /\ PeakOf(player) < player.y

\* a step in which update spawned an obstacle
SpawnTick == PlayingTick /\ frameCount' = 0

\* C13: frameCount counts the ticks since the match began or the last
\* obstacle was spawned, and whatever the threshold draws are, an obstacle
\* is spawned only when at least as many ticks have been counted as a jump
\* that is never released takes from take-off to landing.
C13_SpawnGap ==
  [][/\ (PlayingTick /\ ~SpawnTick) => frameCount' = frameCount + 1
     /\ ~PlayingTick => frameCount' = frameCount
     /\ Len(obstacles') > Len(obstacles) => SpawnTick
     /\ SpawnTick => frameCount + 1 >= ArcTicks]_vars

C13_Witness ==
  /\ op = "update" /\ isPlaying /\ frameCount = 0
  /\ Len(obstacles) >= 2 /\ nextSpawnThreshold > SPAWN_BASE_MIN * 100

\* obstacle o has travelled past the player
Passed(o) == o.x + o.width < player.x

\* C14: in the sprite variant a user who jumps on cue over ground obstacles
\* and stays on the ground otherwise never meets a true collision test,
\* whatever the sequence of obstacle types, from the first obstacle up to
\* the obstacles that arrive at MAX_SPEED.
C14_Avoidable ==
  variant = "sprite" => (isPlaying /\ ~AnyHit(player, obstacles))

C14_Witness ==
  /\ variant = "sprite" /\ isPlaying /\ hasJumped /\ speed = MAX_SPEED
  /\ \E i \in 1..Len(obstacles) :
       obstacles[i].type = "GROUND_LARGE" /\ Passed(obstacles[i])

\* C15 (as claimed): in part_000 the collision test is never true between
\* a player standing on the floor and a flying obstacle.
C15_FlyingPassOver ==
  (variant = "p000" /\ player.y = FLOOR_Y) =>
    \A i \in 1..Len(obstacles) :
      obstacles[i].type \in ObstacleTypes \ GroundTypes
        => ~Hit_p0(player, obstacles[i])

\* the hitbox of obstacle o lies left of the hitbox of player p
Behind(p, o) ==
  o.x + Mul(o.width, 85, 100) <= p.x + Mul(p.width, 2, 10)
\* the hitbox of obstacle o lies right of the hitbox of player p
Ahead(p, o) ==
  o.x + Mul(o.width, 15, 100) >= p.x + Mul(p.width, 8, 10)

\* C16: while the player has never jumped no ground obstacle gets behind
\* the player in a live match; a tick that leaves the player on the ground
\* with a ground obstacle neither ahead nor behind ends the match; and the
\* collision test is false for every obstacle whose right edge is left of
\* player.x.
C16_GroundObstacleStops ==
  /\ [](\A i \in 1..Len(obstacles) :
          /\ (~hasJumped /\ isPlaying /\ obstacles[i].type \in GroundTypes)
                => ~Behind(player, obstacles[i])
          /\ Passed(obstacles[i]) => ~Hit(player, obstacles[i]))
  /\ [][(/\ PlayingTick /\ player'.y = PLAYER_BASE_Y
          /\ \E i \in 1..Len(obstacles') :
               /\ obstacles'[i].type \in GroundTypes
               /\ ~Behind(player', obstacles'[i])
               /\ ~Ahead(player', obstacles'[i]))
        => ~isPlaying']_vars

C16_Witness ==
  /\ ~hasJumped /\ ~isPlaying /\ speed = MAX_SPEED
  /\ player.y = PLAYER_BASE_Y
  /\ \E i \in 1..Len(obstacles) :
       obstacles[i].type = "GROUND_SMALL" /\ Hit(player, obstacles[i])

\* C17: a tick that starts after the collision changes neither speed, the
\* scroll offsets, the player, frameCount, the spawn threshold, the
\* obstacle list, the score nor the playing flags; it may change the
\* game-over timer and the sent flag, and once onGameOver has been invoked
\* it changes nothing of the simulation state.
C17_FrozenAfterHit ==
  [][(op' = "update" /\ ~isPlaying) =>
       /\ UNCHANGED <<score, speed, bgFarOffset, bgMidOffset, groundOffset,
                      player, frameCount, nextSpawnThreshold, obstacles,
                      isPlaying, isGameOver>>
       /\ hasGameOverSent => UNCHANGED simVars]_vars

C17_Witness ==
  /\ hasGameOverSent /\ reportedTicks >= 1 /\ op = "update" /\ lastDt > 0
  /\ player.animState = "die" /\ Len(obstacles) > 0

\* C18: isPlaying never returns to true and hasGameOverSent is never
\* cleared; only a tick changes either flag; the sent flag is set only with
\* isPlaying false, in the sprite variant only by a tick that began with
\* isPlaying false.
C18_Lifecycle ==
  /\ [](hasGameOverSent => ~isPlaying)
  /\ [][/\ ~isPlaying => ~isPlaying'
        /\ hasGameOverSent => hasGameOverSent'
        /\ (isPlaying' # isPlaying \/ hasGameOverSent' # hasGameOverSent)
             => op' = "update"
        /\ (variant = "sprite" /\ hasGameOverSent' /\ ~hasGameOverSent)
             => ~isPlaying]_vars

C18_Witness ==
  /\ hasGameOverSent /\ ~isPlaying /\ gameOverCalls = 1
  /\ op = "startJump" /\ reportedTicks >= 1

\* C19 (as claimed): the dt that a tick adds to the score and takes off the
\* game-over timer lies in 1..1000 (positive, at most the game-over delay)
\* whatever the gap between the timestamps of the two frames is.
C19_DtClamped ==
  [][/\ (variant = "sprite" /\ PlayingTick)
          => \E d \in 1..1000 : score' = score + ScoreInc(4, speed, d)
     /\ (variant = "sprite" /\ op' = "update" /\ ~isPlaying
           /\ ~hasGameOverSent)
          => \E d \in 1..1000 :
               gameOverTimerMs' = gameOverTimerMs - d]_vars

\* a playing tick whose timestamp gap is one of StallGaps
StallTick == PlayingTick /\ lastDt' \in StallGaps

\* C20: a playing tick whose timestamp gap is 10 s takes one physics step
\* (dy grows by GRAVITY once, y by the new dy, clamped to the ground
\* line), raises speed once and moves every obstacle by exactly the new
\* speed; an obstacle ahead of the player's hitbox is not behind it after
\* the tick, and the match goes on exactly when the collision test is
\* false for every obstacle.
C20_OneStepPerTick ==
  [][StallTick =>
       /\ speed' = Min(MAX_SPEED, speed + ACCELERATION)
       /\ player'.y = Min(PLAYER_BASE_Y, player.y + player.dy + GRAVITY)
       /\ player'.dy = IF player.y + player.dy + GRAVITY > PLAYER_BASE_Y
                       THEN 0 ELSE player.dy + GRAVITY
       /\ player'.y <= PLAYER_BASE_Y
       /\ \A i \in 1..Len(obstacles) :
            LET o == [obstacles[i] EXCEPT !.x = obstacles[i].x - speed']
            IN /\ (o.x + o.width < - Px(100))
                    \/ (\E j \in 1..Len(obstacles') : obstacles'[j] = o)
               /\ Ahead(player, obstacles[i]) => ~Behind(player', o)
       /\ isPlaying' = ~AnyHit(player', obstacles')]_vars

C20_Witness ==
  /\ op = "update" /\ lastDt \in StallGaps /\ isPlaying
  /\ player.isJumping /\ player.y < PLAYER_BASE_Y
  /\ \E i \in 1..Len(obstacles) :
       /\ obstacles[i].type \in GroundTypes
       /\ ~Ahead(player, obstacles[i]) /\ ~Behind(player, obstacles[i])

\* C21: in the sprite variant every obstacle in the list has
\* x + width >= -100; a playing tick moves every obstacle by the new speed
\* and the ones that end up beyond that line are not in the list the tick
\* leaves, so the collision test of that tick does not see them.
C21_Pruned ==
  /\ [](variant = "sprite" =>
          \A i \in 1..Len(obstacles) :
            obstacles[i].x + obstacles[i].width >= - Px(100))
  /\ [][(variant = "sprite" /\ PlayingTick) =>
          \A i \in 1..Len(obstacles) :
            LET o == [obstacles[i] EXCEPT !.x = obstacles[i].x - speed']
            IN (\E j \in 1..Len(obstacles') : obstacles'[j] = o)
                 <=> ~(o.x + o.width < - Px(100))]_vars

C21_Witness ==
  /\ variant = "sprite" /\ op = "update" /\ isPlaying
  /\ tickNo > SPAWN_BASE_MIN /\ obstacles = <<>>

\* C22: once player.animState is "die" no step changes it: not a tick, not
\* startJump, not endJump.
C22_DieIsTerminal ==
  [][player.animState = "die" => player'.animState = "die"]_vars

C22_Witness ==
  /\ variant = "sprite" /\ player.animState = "die" /\ player.isJumping
  /\ op = "startJump" /\ hasGameOverSent


\* the frames that are pending
Pending == (IF rafPending THEN 1 ELSE 0) + Len(react.orphans)

\* C23: once the component has been torn down no frame callback is left
\* pending and no later step runs a tick or invokes onGameOver, whether
\* the teardown came during the game-over delay or between a tick that
\* changed the displayed score and the effect re-run it caused.
C23_NoTickAfterTeardown ==
  /\ [](~react.mounted => Pending = 0)
  /\ [][~react.mounted => UNCHANGED <<lastTime, simVars, tickNo,
                                      reportedTicks, gameOverCalls,
                                      gameOverArg>>]_vars

C23_Witness ==
  /\ op = "unmount"
  /\ ~react.mounted
  /\ ~isPlaying /\ ~hasGameOverSent
  /\ gameOverTimerMs < GAME_OVER_DELAY
  /\ react.currentScore # react.refClosure

\* C28: at most one frame callback is pending at any time, and an effect
\* re-run leaves exactly the frame it requested pending, whatever the
\* order of frame callbacks and effect runs.
C28_OnePendingFrame ==
  /\ [](Pending <= 1)
  /\ [][op' = "effect" => (rafPending' /\ react'.orphans = <<>>
                           /\ react'.refClosure = react.currentScore)]_vars

C28_Witness ==
  /\ op = "effect"
  /\ react.mounted
  /\ rafPending
  /\ tickNo > 100
  /\ react.refClosure = react.currentScore
  /\ react.currentScore > 1

\* C24: in the variant that tests collisions inside the obstacle filter and
\* draws a spawn every tick, onGameOver is invoked at most once per match.
C24_ReportedOnce == variant = "v3" => gameOverCalls <= 1

\* C25: in part_001 onGameOver is invoked at most once per match, whatever
\* the spawn draws and the logical widths of the ticks.
C25_ReportedOnce_p1 == variant = "p001" => gameOverCalls <= 1

\* C26: in part_001 a jump() that takes effect finds the player standing on
\* the ground line.
C26_JumpFromGround ==
  [][(variant = "p001" /\ op' = "jump" /\ player' # player)
       => player.y = groundY_p1]_vars

\* C27: in part_000 the player's collision box keeps the value it had on
\* the first tick, and only ticks and startJump/endJump change the
\* simulation state.
C27_HitboxFixed ==
  [][(variant = "p000" /\ tickNo >= 1)
       => /\ player'.hitWidth = player.hitWidth
          /\ player'.hitHeight = player.hitHeight
          /\ (simVars' # simVars
                => op' \in {"update", "startJump", "endJump"})]_vars

\* C29: a tick of the sprite variant creates an obstacle exactly when the
\* incremented frameCount exceeds nextSpawnThreshold, and then only one;
\* it resets frameCount and draws a new threshold from [70, 150), and the
\* new obstacle is still right of the canvas when the tick ends.  Any
\* other tick counts on and leaves the threshold alone.
C29_OneSpawn ==
  [][(variant = "sprite" /\ PlayingTick) =>
       LET due == (frameCount + 1) * 100 > nextSpawnThreshold
           fresh == {i \in 1..Len(obstacles') :
                       obstacles'[i].x + speed' = CANVAS_W + Px(50)}
       IN /\ Cardinality(fresh) = IF due THEN 1 ELSE 0
          /\ Len(obstacles') <= Len(obstacles) + Cardinality(fresh)
          /\ due => /\ frameCount' = 0
                    /\ nextSpawnThreshold' >= SPAWN_BASE_MIN * 100
                    /\ nextSpawnThreshold'
                         < (SPAWN_BASE_MIN + SPAWN_BASE_VAR) * 100
          /\ ~due => /\ frameCount' = frameCount + 1
                     /\ nextSpawnThreshold' = nextSpawnThreshold
          /\ \A i \in fresh : obstacles'[i].x > CANVAS_W]_vars

C29_Witness ==
  /\ variant = "sprite"
  /\ op = "update"
  /\ isPlaying
  /\ frameCount = 0
  /\ speed = MAX_SPEED
  /\ \E i \in 1..Len(obstacles) :
       /\ obstacles[i].x = CANVAS_W + Px(50) - MAX_SPEED
       /\ obstacles[i].x > CANVAS_W

\* the horizontal extent of the hitboxes of the sprite variant
HitLeft(o) == o.x + Mul(o.width, 15, 100)
HitRight(o) == o.x + Mul(o.width, 85, 100)
PlayerHitWidth == Mul(player.width, 8, 10) - Mul(player.width, 2, 10)

\* C30: in the sprite variant the obstacles are listed in strictly
\* increasing x order, the hitbox of each begins farther right of the end
\* of its predecessor's hitbox than the player's hitbox is wide, and at
\* most one obstacle satisfies the collision test.
C30_OrderedApart ==
  variant = "sprite" =>
    /\ \A i \in 1..(Len(obstacles) - 1) :
         /\ obstacles[i].x < obstacles[i + 1].x
         /\ HitLeft(obstacles[i + 1]) - HitRight(obstacles[i])
              > PlayerHitWidth
    /\ Cardinality({i \in 1..Len(obstacles) : Hit(player, obstacles[i])})
         <= 1

C30_Witness ==
  /\ variant = "sprite"
  /\ op = "update"
  /\ Len(obstacles) >= 2
  /\ \E i \in 1..Len(obstacles) : Hit(player, obstacles[i])

\* animState follows isJumping while the match is live and is "die"
\* exactly when it is over
AnimFollows ==
  /\ isPlaying => player.animState = IF player.isJumping THEN "jump"
                                     ELSE "run"
  /\ player.animState = "die" <=> ~isPlaying

C32_OffsetsWrapped ==
  variant = "sprite" =>
    /\ bgFarOffset >= 0 /\ bgFarOffset < CANVAS_W
    /\ bgMidOffset >= 0 /\ bgMidOffset < CANVAS_W
    /\ groundOffset >= 0 /\ groundOffset * 9 < Px(744) * 5

(***************************************************************************)
(* C33: every entry of the App into GAME (START on the title screen, the   *)
(* retry button of the result screen, and the return from the portrait     *)
(* warning as well) begins a match in the initial state: score 0, speed    *)
(* INITIAL_SPEED, no obstacle, the player on the ground with isJumping     *)
(* false, isPlaying true and the game-over report not yet sent; nothing of *)
(* the previous match carries over.                                        *)
(***************************************************************************)
EntersGame == app'.shown = "GAME" /\ app.shown # "GAME"

C33_FreshMatch ==
  [][EntersGame =>
       /\ score' = 0
       /\ speed' = INITIAL_SPEED
       /\ obstacles' = <<>>
       /\ player' = InitPlayer
       /\ isPlaying'
       /\ ~hasGameOverSent'
       /\ gameOverTimerMs' = 0
       /\ frameCount' = 0
       /\ nextSpawnThreshold' = SPAWN_BASE_MIN * 100
       /\ bgFarOffset' = 0 /\ bgMidOffset' = 0 /\ groundOffset' = 0
       /\ react'.mounted /\ react'.currentScore = 0
       /\ rafPending']_vars

\* the retry button has started a second match after a reported collision
C33_Witness ==
  /\ op = "retry"
  /\ app.shown = "GAME"
  /\ app.matches = 2
  /\ gameOverCalls = 1
  /\ gameOverArg > 0
  /\ score = 0
  /\ isPlaying
  /\ obstacles = <<>>

(***************************************************************************)
(* C34: the App enters RESULT only from GAME (GameScreen is the screen     *)
(* React has committed) and only through the game-over callback, and the   *)
(* score shown on the result screen, and submitted from it, is the value   *)
(* the match just played passed to that callback.                          *)
(***************************************************************************)
EntersResult == app'.appState = "RESULT" /\ app.appState # "RESULT"

C34_ResultFromGame ==
  /\ [][EntersResult => /\ app.shown = "GAME"
                        /\ gameOverCalls' = gameOverCalls + 1
                        /\ app'.lastScore = gameOverArg']_vars
  /\ [](app.shown = "RESULT" => app.lastScore = gameOverArg)
  /\ [][op' = "submit" =>
          app'.inFlight[Len(app'.inFlight)].score = gameOverArg]_vars

\* the score of a second match is submitted while the request that carries
\* the different score of the first match is still in flight
C34_Witness ==
  /\ op = "submit"
  /\ app.shown = "RESULT"
  /\ gameOverCalls = 2
  /\ Len(app.inFlight) = 2
  /\ ~app.inFlight[1].live
  /\ app.inFlight[1].score # gameOverArg
  /\ app.inFlight[2].live
  /\ app.inFlight[2].score = gameOverArg
  /\ app.lastScore = gameOverArg

(***************************************************************************)
(* C35: the App reaches TITLE, GAME, RESULT or RANKING only after a PIN    *)
(* equal to the configured PIN has been found, in localStorage or in a     *)
(* submission of the PIN screen (which stores it); a submission of any     *)
(* other input does not call onSuccess, clears the input and sets the      *)
(* error flag.                                                             *)
(***************************************************************************)
PastGate(s) == s \in {"TITLE", "GAME", "RESULT", "RANKING"}

C35_PinGate ==
  /\ []((PastGate(app.appState) \/ PastGate(app.shown)) =>
          (app.pinFound /\ app.storage = eventConfig.pin))
  /\ [][(op' = "pinSubmit" /\ app.input # eventConfig.pin) =>
          /\ app'.appState = "PIN"
          /\ app'.shown = "PIN"
          /\ app'.input = <<>>
          /\ app'.error
          /\ app'.storage = app.storage
          /\ ~app'.pinFound]_vars

\* the submission of the PIN has opened the title screen
C35_Witness ==
  /\ op = "pinSubmit"
  /\ app.shown = "TITLE"
  /\ app.pinFound
  /\ app.storage = eventConfig.pin

(***************************************************************************)
(* C36: when the viewport becomes portrait while the App is in GAME, the   *)
(* running match is discarded without onGameOver being invoked for it, and *)
(* when the viewport returns to landscape the App is still in GAME, with a *)
(* freshly initialised match.                                              *)
(***************************************************************************)
\* the portrait warning covers the game
GameCovered == app.shown = "WARN" /\ app.appState = "GAME"

\* GameScreen is unmounted by the orientation change, no frame is left and
\* no callback is made
C36_Discarded ==
  [][(op' = "resize" /\ app.shown = "GAME" /\ app.appState = "GAME") =>
       /\ GameCovered'
       /\ ~react'.mounted
       /\ ~rafPending'
       /\ gameOverCalls' = gameOverCalls]_vars

\* under the warning the App stays in GAME and reports nothing, and the
\* warning gives way to a new match
C36_StillInGame ==
  [][GameCovered =>
       /\ gameOverCalls' = gameOverCalls
       /\ app'.appState = "GAME"
       /\ app'.shown \in {"WARN", "GAME"}
       /\ app'.shown = "GAME" =>
            (score' = 0 /\ isPlaying' /\ obstacles' = <<>>
               /\ player' = InitPlayer /\ ~hasGameOverSent')]_vars

C36_PortraitRestart == C36_Discarded /\ C36_StillInGame

(***************************************************************************)
(* C37: on the result screen at most one saveScore request is in flight at *)
(* a time (a submit without a selected name or while a request is pending  *)
(* does nothing), after one request has succeeded no further saveScore is  *)
(* issued from that screen, and a failed request leaves the screen able to *)
(* submit again.                                                           *)
(***************************************************************************)
\* the requests sent by the result screen that is mounted now
LiveRequests == {i \in DOMAIN app.inFlight : app.inFlight[i].live}

C37_OneInFlight == [](app.shown = "RESULT" => Len(app.inFlight) <= 1)

C37_NoneAfterSuccess == [][op' = "submit" => app.savedHere = 0]_vars

C37_RetryAfterFailure ==
  [][(op' = "saveFailed" /\ LiveRequests # {} /\ LiveRequests' = {}) =>
       /\ app'.shown = "RESULT"
       /\ app'.selectedName
       /\ ~app'.isSubmitting
       /\ ~app'.hasSubmitted]_vars

C37_OneRequest ==
  /\ C37_OneInFlight
  /\ C37_NoneAfterSuccess
  /\ C37_RetryAfterFailure

\* the same, counting for each mounted result screen its own requests only
C37_PerScreen ==
  /\ [](Cardinality(LiveRequests) <= 1)
  /\ [](app.isSubmitting <=> LiveRequests # {})
  /\ [][op' = "submit" => (~app.hasSubmitted /\ LiveRequests = {})]_vars
  /\ [](app.hasSubmitted => LiveRequests = {})

(***************************************************************************)
(* C38: a failing backend is answered without an exception and without a   *)
(* retry: saveScore returns false when the write fails and getRanking an   *)
(* empty list when the query fails; the result screen that sent the        *)
(* request then stays on the submit form (hasSubmitted false, isSubmitting *)
(* false), no request and no timer is started, and onGameOver is not       *)
(* invoked again.                                                          *)
(***************************************************************************)
C38_FailureContained ==
  /\ [][op' = "saveFailed" =>
          /\ ~saveScore("error")
          /\ Len(app'.inFlight) = Len(app.inFlight) - 1
          /\ app'.rankTimers = app.rankTimers
          /\ app'.savedHere = app.savedHere
          /\ app'.appState = app.appState
          /\ app'.shown = app.shown
          /\ gameOverCalls' = gameOverCalls
          /\ (LiveRequests # {} /\ LiveRequests' = {}) =>
               /\ app'.shown = "RESULT"
               /\ ~app'.hasSubmitted
               /\ ~app'.isSubmitting]_vars
  /\ [][op' = "fetchFailed" =>
          /\ getRanking("error") = "empty"
          /\ app'.scores = "empty"
          /\ ~app'.loading
          /\ ~app'.fetching
          /\ app'.inFlight = app.inFlight
          /\ app'.appState = app.appState
          /\ app'.shown = "RANKING"
          /\ gameOverCalls' = gameOverCalls]_vars

\* the write of the mounted result screen has failed
C38_Witness ==
  /\ op = "saveFailed"
  /\ app.shown = "RESULT"
  /\ app.inFlight = <<>>
  /\ app.selectedName
  /\ ~app.isSubmitting
  /\ ~app.hasSubmitted
  /\ app.rankTimers = 0
  /\ gameOverCalls = 1

====
